---------------------------- MODULE Spec2Model ----------------------------
(***************************************************************************)
(* Font-extraction pipeline of the font scraper: the CSS property          *)
(* extractor, the @font-face parser, the merge/dedup engine and the        *)
(* detection orchestrator (src/src/css_parser.py, src/src/font_detector.py,*)
(* src/src/utils.py, src/font_scraper/scraper.py).                         *)
(*                                                                         *)
(* Python str values are sequences of one-character strings; Optional[str] *)
(* is None == << >> or Some(s) == << s >>; a list is a sequence; a dict is *)
(* a function from keys to values; a Font object lives in the heap and is  *)
(* referred to by its object id, so that in-place mutation is visible.     *)
(***************************************************************************)
EXTENDS Integers, Sequences, FiniteSets, TLC

(***************************************************************************)
(* Python values                                                           *)
(***************************************************************************)
None == << >>

Some(s) == << s >>

EmptyDict == [k \in {} |-> << >>]

\* a dict overlaid with e, the keys it already has keeping their values
DictUpdateKeep(d, e) == d @@ e

\* d.update(e): the keys of e overwrite those of d
DictUpdate(d, e) == e @@ d

\* d[k] = v
DictSet(d, k, v) == (k :> v) @@ d

Range(s) == {s[i] : i \in DOMAIN s}

\* the distinct orders list(set(xs)) can come out in
SetOrders(S) == {q \in [1..Cardinality(S) -> S] : Range(q) = S}

Max(S) == CHOOSE x \in S : \A y \in S : y <= x

Min(S) == CHOOSE x \in S : \A y \in S : x <= y

\* the least element of S, or d when S is empty
MinOr(S, d) == IF S = {} THEN d ELSE Min(S)

(***************************************************************************)
(* Characters and the str methods the parsers use                          *)
(***************************************************************************)
\* what \s of re and str.strip() take as whitespace (of the characters modelled)
IsSpace(c) == c \in {" ", "\t", "\n"}

IsQuote(c) == c \in {"\"", "'"}

UpperChars == <<"A","B","C","D","E","F","G","H","I","J","K","L","M",
                "N","O","P","Q","R","S","T","U","V","W","X","Y","Z">>

LowerChars == <<"a","b","c","d","e","f","g","h","i","j","k","l","m",
                "n","o","p","q","r","s","t","u","v","w","x","y","z">>

LowerChar(c) ==
    IF \E i \in DOMAIN UpperChars : UpperChars[i] = c
    THEN LowerChars[CHOOSE i \in DOMAIN UpperChars : UpperChars[i] = c]
    ELSE c

\* str.lower()
Lower(s) == [i \in DOMAIN s |-> LowerChar(s[i])]

\* s[a:b] with 1-based inclusive a and exclusive b
Slice(s, a, b) == IF b <= a THEN << >> ELSE SubSeq(s, a, b - 1)

\* s[a:]
From(s, a) == Slice(s, a, Len(s) + 1)

\* str.strip()
StripTo(s, ns) == IF ns = {} THEN << >> ELSE SubSeq(s, Min(ns), Max(ns))

Strip(s) == StripTo(s, {i \in DOMAIN s : ~IsSpace(s[i])})

\* str.startswith at offset i (1-based): lit occurs in s at i
StartsAt(s, i, lit) ==
    /\ i >= 1
    /\ i + Len(lit) - 1 <= Len(s)
    /\ \A k \in DOMAIN lit : s[i + k - 1] = lit[k]

\* the same under re.IGNORECASE, for a lower-case lit
StartsAtNoCase(s, i, lit) ==
    /\ i >= 1
    /\ i + Len(lit) - 1 <= Len(s)
    /\ \A k \in DOMAIN lit : LowerChar(s[i + k - 1]) = lit[k]

\* lit in s
Contains(s, lit) == \E i \in 1..(Len(s) + 1) : StartsAt(s, i, lit)

\* str.endswith
EndsWith(s, lit) == Len(lit) <= Len(s) /\ StartsAt(s, Len(s) - Len(lit) + 1, lit)

\* first index >= i of a character that is not whitespace (Len(s)+1 if none):
\* where a greedy \s* started at i stops
SkipSpace(s, i) == MinOr({k \in i..Len(s) : ~IsSpace(s[k])}, Len(s) + 1)

\* str.split(c): the pieces between the occurrences of c, empty ones included
RECURSIVE SplitFrom(_, _, _)
SplitAt(s, c, i, hit) ==
    IF hit > Len(s) THEN << Slice(s, i, Len(s) + 1) >>
    ELSE << Slice(s, i, hit) >> \o SplitFrom(s, c, hit + 1)

SplitFrom(s, c, i) == SplitAt(s, c, i, MinOr({k \in i..Len(s) : s[k] = c}, Len(s) + 1))

Split(s, c) == SplitFrom(s, c, 1)

\* the elements of s at the indices that satisfy keep, in order
KeepFirst(e) == e[2]

Firsts(marked) == [k \in DOMAIN marked |-> marked[k][1]]

Keep(s, keep(_)) == Firsts(SelectSeq([k \in DOMAIN s |-> << s[k], keep(k) >>], KeepFirst))

\* re.sub(r'\s+', ' ', s): every run of whitespace becomes one space
CollapseSpace(s) ==
    LET first(k) == ~IsSpace(s[k]) \/ k = 1 \/ ~IsSpace(s[k - 1])
    IN  Keep([k \in DOMAIN s |-> IF IsSpace(s[k]) THEN " " ELSE s[k]], first)

\* re.sub(r'^["\']|["\']$', '', s): a quote at the start and a quote at the end go,
\* whether or not they are the same character
StripEndQuote(t) ==
    IF t # << >> /\ IsQuote(t[Len(t)]) THEN SubSeq(t, 1, Len(t) - 1) ELSE t

StripQuotes(s) == StripEndQuote(IF s # << >> /\ IsQuote(s[1]) THEN Tail(s) ELSE s)

\* normalize_font_name without the strip() of utils.py:66
normalize_font_name_unstripped(font_name) ==
    IF font_name = << >> THEN << >>
    ELSE CollapseSpace(StripQuotes(font_name))

normalize_font_name(font_name) ==
    IF font_name = << >> THEN << >>
    ELSE CollapseSpace(StripQuotes(Strip(font_name)))

clean_css_value(value) ==
    IF value = << >> THEN << >>
    ELSE StripQuotes(CollapseSpace(Strip(value)))

(***************************************************************************)
(* Regular expressions of the parsers                                      *)
(***************************************************************************)
\* The matches of  lit\s*\(\s*["\']?([^"\']+)["\']?\s*\)  that start at p, each as
\* <<w, q, ce>>: the optional whitespace after "(" ends before w, q = 1 when the
\* opening quote is taken, and the group is s[w+q .. ce-1].
\* the index r is one of a ")" of s
ClosesAt(s, r) == r <= Len(s) /\ s[r] = ")"

\* the same, a being the index after lit and its whitespace
CallMatchesAfter(s, a) ==
    IF a > Len(s) \/ s[a] # "(" THEN {}
    ELSE { m \in ((a + 1)..SkipSpace(s, a + 1)) \X {0, 1} \X ((a + 2)..(Len(s) + 1)) :
             /\ m[2] = 1 => (m[1] <= Len(s) /\ IsQuote(s[m[1]]))
             /\ m[3] > m[1] + m[2]
             /\ \A k \in (m[1] + m[2])..(m[3] - 1) : ~IsQuote(s[k])
             /\ \E q2 \in {0, 1} :
                   /\ q2 = 1 => (m[3] <= Len(s) /\ IsQuote(s[m[3]]))
                   /\ ClosesAt(s, SkipSpace(s, m[3] + q2)) }

CallMatchesAt(s, p, lit) ==
    IF ~StartsAt(s, p, lit) THEN {} ELSE CallMatchesAfter(s, SkipSpace(s, p + Len(lit)))

\* the match a backtracking matcher finds first: greedy whitespace, then the quote
\* taken if it can be, then the longest group
FirstCallMatch(M) ==
    CHOOSE m \in M : \A n \in M :
        \/ n[1] < m[1]
        \/ n[1] = m[1] /\ n[2] < m[2]
        \/ n[1] = m[1] /\ n[2] = m[2] /\ n[3] <= m[3]

\* re.search(lit + r'\s*\(\s*["\']?([^"\']+)["\']?\s*\)', s): None, or Some(group(1))
CallGroup(s, m) == Some(Slice(s, m[1] + m[2], m[3]))

SearchCallFrom(s, lit, start) ==
    IF start = 0 THEN None ELSE CallGroup(s, FirstCallMatch(CallMatchesAt(s, start, lit)))

SearchCall(s, lit) ==
    SearchCallFrom(s, lit, MinOr({p \in 1..Len(s) : CallMatchesAt(s, p, lit) # {}}, 0))

s_url_local == <<"l","o","c","a","l">>

s_url == <<"u","r","l">>

s_format == <<"f","o","r","m","a","t">>

s_font_face == <<"@","f","o","n","t","-","f","a","c","e">>

\* re.finditer(r'@font-face\s*\{([^}]+)\}', css, re.IGNORECASE | re.DOTALL): the
\* group(1) of each match, left to right, the scan resuming after a match
\* the pattern matches at p: << index of "{", index of the closing "}" >>, else << >>
FontFaceMatchBody(css, a, close) ==
    IF a > Len(css) \/ css[a] # "{" \/ close = 0 \/ close = a + 1 THEN << >>
    ELSE << a, close >>

FontFaceMatchAfter(css, a) ==
    FontFaceMatchBody(css, a, MinOr({k \in (a + 1)..Len(css) : css[k] = "}"}, 0))

FontFaceMatchAt(css, p) ==
    IF ~StartsAtNoCase(css, p, s_font_face) THEN << >>
    ELSE FontFaceMatchAfter(css, SkipSpace(css, p + Len(s_font_face)))

RECURSIVE FontFaceBlocksFrom(_, _)
FontFaceBlocksAt(css, m) ==
    << Slice(css, m[1] + 1, m[2]) >> \o FontFaceBlocksFrom(css, m[2] + 1)

FontFaceBlocksNext(css, start) ==
    IF start = 0 THEN << >> ELSE FontFaceBlocksAt(css, FontFaceMatchAt(css, start))

FontFaceBlocksFrom(css, i) ==
    FontFaceBlocksNext(css, MinOr({p \in i..Len(css) : FontFaceMatchAt(css, p) # << >>}, 0))

FontFaceBlocks(css) == FontFaceBlocksFrom(css, 1)

(***************************************************************************)
(* utils.py: URLs                                                          *)
(***************************************************************************)
s_colon_slashes == <<":","/","/">>

IsSchemeChar(c) ==
    \/ \E i \in DOMAIN LowerChars : LowerChars[i] = c \/ UpperChars[i] = c
    \/ c \in {"0","1","2","3","4","5","6","7","8","9","+","-","."}

\* the url names its own scheme ("https:", "data:")
HasScheme(url) ==
    \E i \in 2..Len(url) :
        /\ url[i] = ":"
        /\ \A k \in 1..(i - 1) : IsSchemeChar(url[k])
        /\ ~(url[1] \in {"0","1","2","3","4","5","6","7","8","9","+","-","."})

\* index of the first character of the path of an absolute url (Len+1 if it has none)
PathStartAfter(url, c) ==
    IF c = 0 \/ ~HasScheme(url) THEN 1
    ELSE MinOr({k \in (c + 3)..Len(url) : url[k] = "/"}, Len(url) + 1)

PathStart(url) ==
    PathStartAfter(url, MinOr({i \in 1..Len(url) : StartsAt(url, i, s_colon_slashes)}, 0))

s_slashes == <<"/","/">>

\* the host part of a url that names one ("//host/..." or "scheme://host/..."), else
\* the empty string
NetlocFrom(url, a) ==
    IF a = 0 THEN << >>
    ELSE Slice(url, a, MinOr({k \in a..Len(url) : url[k] \in {"/", "?", "#"}}, Len(url) + 1))

\* index of the first character of the host, c being the index of the first "//"
NetlocStart(url, c) ==
    IF StartsAt(url, 1, s_slashes) THEN 3
    ELSE IF HasScheme(url) /\ c > 1 /\ url[c - 1] = ":"
            /\ \A k \in 1..(c - 2) : url[k] # ":"
    THEN c + 2
    ELSE 0

Netloc(url) ==
    NetlocFrom(url, NetlocStart(url, MinOr({i \in 1..Len(url) : StartsAt(url, i, s_slashes)}, 0)))

\* urljoin(base, url) raises ValueError("Invalid IPv6 URL"): the host of url has one
\* of "[" and "]" without the other
HalfBracketed(netloc) == ("[" \in Range(netloc)) # ("]" \in Range(netloc))

urljoin_raises(url_given) == HalfBracketed(Netloc(From(url_given, SkipSpace(url_given, 1))))

\* urllib.parse.urljoin(base, url) for a base "scheme://host/path" and a url that is
\* absolute, scheme-relative ("//host/x"), host-relative ("/x") or relative to the
\* directory of the base (without "?", "#" or dot segments of its own)
\* the base up to and with the last "/" of its path
BaseDirectory(base, sl) ==
    IF sl = {} THEN base \o << "/" >> ELSE Slice(base, 1, Max(sl) + 1)

BaseDirectoryFrom(base, a) == BaseDirectory(base, {k \in a..Len(base) : base[k] = "/"})

urljoin_stripped(base, url) ==
    IF url = << >> THEN base
    ELSE IF HasScheme(url) THEN url
    ELSE IF StartsAt(url, 1, s_slashes)
    THEN Slice(base, 1, Min({i \in 1..Len(base) : base[i] = ":"}) + 1) \o url
    ELSE IF url[1] = "/" THEN Slice(base, 1, PathStart(base)) \o url
    ELSE BaseDirectoryFrom(base, PathStart(base)) \o url

\* leading spaces of the url are dropped
urljoin(base, url_given) == urljoin_stripped(base, From(url_given, SkipSpace(url_given, 1)))

\* urlparse(url).path: from the end of the host to the first "?" or "#"
UrlPathFrom(url, a) ==
    Slice(url, a, MinOr({k \in a..Len(url) : url[k] \in {"?", "#"}}, Len(url) + 1))

UrlPath(url) == UrlPathFrom(url, PathStart(url))

ext_woff == <<".","w","o","f","f">>

ext_woff2 == <<".","w","o","f","f","2">>

ext_ttf == <<".","t","t","f">>

ext_otf == <<".","o","t","f">>

ext_eot == <<".","e","o","t">>

ext_svg == <<".","s","v","g">>

EndsWithFontExtension(path) ==
    \E ext \in {ext_woff, ext_woff2, ext_ttf, ext_otf, ext_eot, ext_svg} :
        EndsWith(path, ext)

is_web_font_url(url) == EndsWithFontExtension(UrlPath(Lower(url)))

s_woff == <<"w","o","f","f">>

s_woff2 == <<"w","o","f","f","2">>

s_truetype == <<"t","r","u","e","t","y","p","e">>

s_opentype == <<"o","p","e","n","t","y","p","e">>

s_embedded_opentype == <<"e","m","b","e","d","d","e","d","-","o","p","e","n","t","y","p","e">>

s_Google_Fonts == <<"G","o","o","g","l","e"," ","F","o","n","t","s">>

s_Adobe_Fonts == <<"A","d","o","b","e"," ","F","o","n","t","s">>

s_Font_Awesome == <<"F","o","n","t"," ","A","w","e","s","o","m","e">>

s_CDNJS == <<"C","D","N","J","S">>

s_Commercial == <<"C","o","m","m","e","r","c","i","a","l"," ","W","e","b"," ","F","o","n","t","s">>

s_Custom == <<"C","u","s","t","o","m">>

\* the provider named by the lower-cased url u
ProviderOf(u) ==
    LET has(lit) == Contains(u, lit)
    IN       IF has(<<"f","o","n","t","s",".","g","o","o","g","l","e","a","p","i","s",".","c","o","m">>)
                \/ has(<<"f","o","n","t","s",".","g","s","t","a","t","i","c",".","c","o","m">>)
             THEN Some(s_Google_Fonts)
             ELSE IF has(<<"u","s","e",".","t","y","p","e","k","i","t",".","n","e","t">>)
                     \/ has(<<"u","s","e",".","t","y","p","e","k","i","t",".","c","o","m">>)
             THEN Some(s_Adobe_Fonts)
             ELSE IF has(<<"f","o","n","t","a","w","e","s","o","m","e">>)
             THEN Some(s_Font_Awesome)
             ELSE IF has(<<"c","d","n","j","s",".","c","l","o","u","d","f","l","a","r","e",".","c","o","m">>)
                     /\ has(<<"f","o","n","t">>)
             THEN Some(s_CDNJS)
             ELSE IF has(<<"f","o","n","t","s",".","c","o","m">>)
                     \/ has(<<"w","e","b","t","y","p","e",".","c","o","m">>)
                     \/ has(<<"t","y","p","o","g","r","a","p","h","y",".","c","o","m">>)
             THEN Some(s_Commercial)
             ELSE Some(s_Custom)

\* detect_font_provider comparing the url as written, without url.lower()
detect_font_provider_cased(url) ==
    IF url = None \/ url[1] = << >> THEN None ELSE ProviderOf(url[1])

\* url is an Optional[str]
detect_font_provider(url) ==
    IF url = None \/ url[1] = << >> THEN None ELSE ProviderOf(Lower(url[1]))

(***************************************************************************)
(* utils.py: parse_font_face_src                                           *)
(***************************************************************************)
\* paren_depth when the loop reaches index k: the "(" before k minus the ")" before
\* k; it is not kept from going negative
ParenDepth(src_value, k) ==
    Cardinality({j \in 1..(k - 1) : src_value[j] = "("})
        - Cardinality({j \in 1..(k - 1) : src_value[j] = ")"})

\* the loop that splits src_value at the commas at paren_depth 0: every part before
\* such a comma is appended stripped, the last part only when it is not blank
RECURSIVE SrcPartsFrom(_, _)
NonBlank(part) == IF part # << >> THEN << part >> ELSE << >>

SrcPartsAt(src_value, k, comma) ==
    IF comma = 0 THEN NonBlank(Strip(From(src_value, k)))
    ELSE << Strip(Slice(src_value, k, comma)) >> \o SrcPartsFrom(src_value, comma + 1)

\* the same loop with paren_depth never consulted: every comma splits
SrcPartsFromFlat(src_value, k) ==
    SrcPartsAt(src_value, k, MinOr({j \in k..Len(src_value) : src_value[j] = ","}, 0))

SrcPartsFrom(src_value, k) ==
    SrcPartsAt(src_value, k,
               MinOr({j \in k..Len(src_value) :
                         src_value[j] = "," /\ ParenDepth(src_value, j) = 0}, 0))

SrcParts(src_value) == SrcPartsFrom(src_value, 1)

\* the format of one source: the explicit format(...), else the one the end of the
\* url names when is_web_font_url holds
FormatOr(format_match, url) ==
    IF format_match # None THEN format_match
    ELSE IF ~is_web_font_url(url) THEN None
    ELSE IF EndsWith(url, ext_woff2) THEN Some(s_woff2)
    ELSE IF EndsWith(url, ext_woff) THEN Some(s_woff)
    ELSE IF EndsWith(url, ext_ttf) THEN Some(s_truetype)
    ELSE IF EndsWith(url, ext_otf) THEN Some(s_opentype)
    ELSE IF EndsWith(url, ext_eot) THEN Some(s_embedded_opentype)
    ELSE None

SourceFormat(part, url) == FormatOr(SearchCall(part, s_format), url)

\* base_url is an Optional[str]; the result is a list of [url, format]
SourceEntry(part, url) == << [url |-> url, format |-> SourceFormat(part, url)] >>

\* the sources.append(...) of one part, url_match being the match of url(...) in it
SourceOf(part, url_match, base_url) ==
    IF url_match = None THEN << >>
    ELSE SourceEntry(part, IF base_url # None /\ base_url[1] # << >>
                           THEN urljoin(base_url[1], url_match[1])
                           ELSE url_match[1])

RECURSIVE SourcesOf(_, _)
SourcesOf(src_parts, base_url) ==
    IF src_parts = << >> THEN << >>
    ELSE SourceOf(Head(src_parts), SearchCall(Head(src_parts), s_url), base_url)
            \o SourcesOf(Tail(src_parts), base_url)

parse_font_face_src(src_value, base_url) == SourcesOf(SrcParts(src_value), base_url)

UrlMatchRaises(url_match) == url_match # None /\ urljoin_raises(url_match[1])

\* parse_font_face_src raises: urljoin does, for the url of one of the parts
parse_font_face_src_raises(src_value, base_url) ==
    /\ base_url # None /\ base_url[1] # << >>
    /\ \E part \in Range(SrcParts(src_value)) : UrlMatchRaises(SearchCall(part, s_url))

(***************************************************************************)
(* utils.py: Font and is_system_font                                       *)
(***************************************************************************)
s_web == <<"w","e","b">>

s_system == <<"s","y","s","t","e","m">>

s_custom == <<"c","u","s","t","o","m">>

s_400 == <<"4","0","0">>

s_normal == <<"n","o","r","m","a","l">>

s_italic == <<"i","t","a","l","i","c">>

\* Font(name=..., type=...) with the dataclass defaults of the other fields
Font(name, type) ==
    [name |-> name, type |-> type, source |-> None, weights |-> << >>,
     styles |-> << >>, format |-> None, provider |-> None, selectors |-> << >>,
     font_face_data |-> EmptyDict, unicode_range |-> None]

\* the identity key (font.name, font.type, font.source)
KeyOf(font) == << font.name, font.type, font.source >>

system_fonts ==
    { <<"a","r","i","a","l">>,
      <<"h","e","l","v","e","t","i","c","a">>,
      <<"t","i","m","e","s">>,
      <<"t","i","m","e","s"," ","n","e","w"," ","r","o","m","a","n">>,
      <<"c","o","u","r","i","e","r">>,
      <<"c","o","u","r","i","e","r"," ","n","e","w">>,
      <<"v","e","r","d","a","n","a">>,
      <<"g","e","o","r","g","i","a">>,
      <<"p","a","l","a","t","i","n","o">>,
      <<"g","a","r","a","m","o","n","d">>,
      <<"b","o","o","k","m","a","n">>,
      <<"c","o","m","i","c"," ","s","a","n","s"," ","m","s">>,
      <<"t","r","e","b","u","c","h","e","t"," ","m","s">>,
      <<"a","r","i","a","l"," ","b","l","a","c","k">>,
      <<"i","m","p","a","c","t">>,
      <<"l","u","c","i","d","a"," ","s","a","n","s"," ","u","n","i","c","o","d","e">>,
      <<"t","a","h","o","m","a">>,
      <<"l","u","c","i","d","a"," ","c","o","n","s","o","l","e">>,
      <<"m","o","n","a","c","o">>,
      <<"b","r","a","d","l","e","y"," ","h","a","n","d">>,
      <<"b","r","u","s","h"," ","s","c","r","i","p","t"," ","m","t">>,
      <<"l","u","m","i","n","a","r","i">>,
      <<"m","a","r","k","e","r"," ","f","e","l","t">>,
      <<"p","a","p","y","r","u","s">>,
      <<"s","y","s","t","e","m","-","u","i">>,
      <<"-","a","p","p","l","e","-","s","y","s","t","e","m">>,
      <<"b","l","i","n","k","m","a","c","s","y","s","t","e","m","f","o","n","t">>,
      <<"s","e","g","o","e"," ","u","i">>,
      <<"r","o","b","o","t","o">>,
      <<"h","e","l","v","e","t","i","c","a"," ","n","e","u","e">>,
      <<"a","r","i","a","l"," ","u","n","i","c","o","d","e"," ","m","s">>,
      <<"a","v","e","n","i","r">>,
      <<"m","e","n","l","o">>,
      <<"c","o","n","s","o","l","a","s">>,
      <<"d","e","j","a","v","u"," ","s","a","n","s">>,
      <<"l","i","b","e","r","a","t","i","o","n"," ","s","a","n","s">>,
      <<"n","o","t","o"," ","s","a","n","s">>,
      <<"d","r","o","i","d"," ","s","a","n","s">>,
      <<"c","a","n","t","a","r","e","l","l">>,
      <<"o","x","y","g","e","n">>,
      <<"u","b","u","n","t","u">>,
      <<"f","r","a","n","k","l","i","n"," ","g","o","t","h","i","c"," ","m","e","d","i","u","m">>,
      <<"c","e","n","t","u","r","y"," ","g","o","t","h","i","c">>,
      <<"c","a","l","i","b","r","i">>,
      <<"c","a","m","b","r","i","a">>,
      <<"o","p","t","i","m","a">>,
      <<"g","i","l","l"," ","s","a","n","s">>,
      <<"f","u","t","u","r","a">>,
      <<"a","v","a","n","t"," ","g","a","r","d","e">> }

is_system_font(font_name) == Lower(normalize_font_name(font_name)) \in system_fonts

(***************************************************************************)
(* css_parser.py: the @font-face path                                      *)
(***************************************************************************)
s_font_family == <<"f","o","n","t","-","f","a","m","i","l","y">>

s_src == <<"s","r","c">>

s_font_weight == <<"f","o","n","t","-","w","e","i","g","h","t">>

s_font_style == <<"f","o","n","t","-","s","t","y","l","e">>

s_unicode_range == <<"u","n","i","c","o","d","e","-","r","a","n","g","e">>

s_font == <<"f","o","n","t">>

\* the loop over css_block.split(';'): a declaration with a ':' sets properties[key]
\* when both its key and its cleaned value are non-empty
RECURSIVE PropertiesOf(_, _)
\* properties[key] = value only when the key is new: the first declaration would win
SetPropertyFirst(properties, key, value) ==
    IF key # << >> /\ value # << >> /\ key \notin DOMAIN properties
    THEN DictSet(properties, key, value) ELSE properties

SetProperty(properties, key, value) ==
    IF key # << >> /\ value # << >> THEN DictSet(properties, key, value) ELSE properties

\* key, value = declaration.split(':', 1), colon being the index of the first ':'
\* (0 when the declaration has none)
DeclarationInto(properties, declaration, colon) ==
    IF colon = 0 THEN properties
    ELSE SetProperty(properties, Lower(Strip(Slice(declaration, 1, colon))),
                     clean_css_value(From(declaration, colon + 1)))

FirstColon(declaration) == MinOr({i \in DOMAIN declaration : declaration[i] = ":"}, 0)

PropertiesOf(declarations, properties) ==
    IF declarations = << >> THEN properties
    ELSE PropertiesOf(Tail(declarations),
                      DeclarationInto(properties, Head(declarations),
                                      FirstColon(Head(declarations))))

_extract_css_properties(css_block) == PropertiesOf(Split(css_block, ";"), EmptyDict)

\* self.base_url or source_url, both Optional[str]
BaseOr(base_url, source_url) ==
    IF base_url # None /\ base_url[1] # << >> THEN base_url ELSE source_url

\* font.weights / font.styles of a @font-face font whose block has the property:
\* the cleaned value, or the default when it is empty or 'normal'
ValueOrDefault(value, default) ==
    IF value # << >> /\ value # s_normal THEN << value >> ELSE << default >>

PropertyOr(properties, key, default) ==
    IF key \in DOMAIN properties THEN properties[key] ELSE default

\* the Font built from the properties and the first source
FontFaceFont(properties, primary_source) ==
    [name |-> normalize_font_name(properties[s_font_family]),
     type |-> s_web,
     source |-> Some(primary_source.url),
     format |-> primary_source.format,
     provider |-> detect_font_provider(Some(primary_source.url)),
     font_face_data |-> properties,
     weights |->
         IF s_font_weight \notin DOMAIN properties THEN << >>
         ELSE ValueOrDefault(clean_css_value(properties[s_font_weight]), s_400),
     styles |->
         IF s_font_style \notin DOMAIN properties THEN << >>
         ELSE ValueOrDefault(clean_css_value(properties[s_font_style]), s_normal),
     selectors |-> << >>,
     unicode_range |->
         IF s_unicode_range \in DOMAIN properties
         THEN Some(properties[s_unicode_range])
         ELSE None]

FaceOfSources(properties, sources) ==
    IF sources = << >> THEN None ELSE Some(FontFaceFont(properties, sources[1]))

FaceOfProperties(properties, base) ==
    IF s_font_family \notin DOMAIN properties THEN None
    ELSE FaceOfSources(properties,
                       parse_font_face_src(PropertyOr(properties, s_src, << >>), base))

\* None, or Some(font)
_parse_single_font_face(font_face_block, base_url, source_url) ==
    FaceOfProperties(_extract_css_properties(font_face_block), BaseOr(base_url, source_url))

PropertiesRaise(properties, base) ==
    /\ s_font_family \in DOMAIN properties
    /\ s_src \in DOMAIN properties
    /\ parse_font_face_src_raises(properties[s_src], base)

\* _parse_single_font_face raises: it reaches parse_font_face_src, which does
_parse_single_font_face_raises(font_face_block, base_url, source_url) ==
    PropertiesRaise(_extract_css_properties(font_face_block), BaseOr(base_url, source_url))

\* the Optional[Font] of every @font-face block of the blob, in order
FacesOf(font_face_blocks, base_url, source_url) ==
    [k \in DOMAIN font_face_blocks |->
        _parse_single_font_face(font_face_blocks[k], base_url, source_url)]

FaceResults(css_content, base_url, source_url) ==
    FacesOf(FontFaceBlocks(css_content), base_url, source_url)

\* the values of a list of Optional values that are not None
RECURSIVE Somes(_)
Somes(opts) ==
    IF opts = << >> THEN << >>
    ELSE IF Head(opts) = None THEN Somes(Tail(opts))
    ELSE << Head(opts)[1] >> \o Somes(Tail(opts))

_parse_font_face_declarations(css_content, base_url, source_url) ==
    Somes(FaceResults(css_content, base_url, source_url))

\* the loop over the blocks raises at one of them
_parse_font_face_declarations_raises(css_content, base_url, source_url) ==
    \E font_face_block \in Range(FontFaceBlocks(css_content)) :
        _parse_single_font_face_raises(font_face_block, base_url, source_url)

(***************************************************************************)
(* css_parser.py: the style-rule path                                      *)
(***************************************************************************)
\* the indices at which the scanner of _parse_font_family_value has in_quotes set
\* when it reads the character: from the scan position k (outside quotes), the next
\* quote character opens, and the next occurrence of the same character closes
RECURSIVE QuotedFrom(_, _)
QuotedTo(value, a, close) ==
    IF close = 0 THEN (a + 1)..Len(value)
    ELSE ((a + 1)..close) \cup QuotedFrom(value, close + 1)

QuotedAt(value, a) ==
    IF a = 0 THEN {}
    ELSE QuotedTo(value, a, MinOr({j \in (a + 1)..Len(value) : value[j] = value[a]}, 0))

QuotedFrom(value, k) == QuotedAt(value, MinOr({j \in k..Len(value) : IsQuote(value[j])}, 0))

\* the pieces between the commas read with in_quotes unset, stripped, the blank ones
\* dropped
RECURSIVE FamilyPiecesFrom(_, _, _)
FamilyPiecesAt(value, k, quoted, comma) ==
    IF comma = 0 THEN NonBlank(Strip(From(value, k)))
    ELSE NonBlank(Strip(Slice(value, k, comma))) \o FamilyPiecesFrom(value, comma + 1, quoted)

\* the commas of the value taken as separators when in_quotes is never consulted
FamilyPiecesFromPlain(value, k, quoted) ==
    FamilyPiecesAt(value, k, quoted, MinOr({j \in k..Len(value) : value[j] = ","}, 0))

FamilyPiecesFrom(value, k, quoted) ==
    FamilyPiecesAt(value, k, quoted,
                   MinOr({j \in k..Len(value) : value[j] = "," /\ j \notin quoted}, 0))

NormalizedNames(font_families) ==
    [k \in DOMAIN font_families |-> normalize_font_name(font_families[k])]

_parse_font_family_value(font_family_value) ==
    NormalizedNames(FamilyPiecesFrom(font_family_value, 1, QuotedFrom(font_family_value, 1)))

\* the Font of each non-empty name of a family list: its type from is_system_font,
\* then the fields the caller sets
RECURSIVE FamilyFonts(_, _, _, _)
\* FamilyFont with the type 'custom' whatever the name
FamilyFontCustom(font_name, selectors, weights, styles) ==
    IF font_name = << >> THEN << >>
    ELSE << [Font(font_name, s_custom)
               EXCEPT !.selectors = selectors, !.weights = weights, !.styles = styles] >>

FamilyFont(font_name, selectors, weights, styles) ==
    IF font_name = << >> THEN << >>
    ELSE << [Font(font_name, IF is_system_font(font_name) THEN s_system ELSE s_custom)
               EXCEPT !.selectors = selectors, !.weights = weights, !.styles = styles] >>

FamilyFonts(font_families, selectors, weights, styles) ==
    IF font_families = << >> THEN << >>
    ELSE FamilyFont(normalize_font_name(Head(font_families)), selectors, weights, styles)
            \o FamilyFonts(Tail(font_families), selectors, weights, styles)

Digits == {"0","1","2","3","4","5","6","7","8","9"}

size_units ==
    << <<"p","x">>, <<"e","m">>, <<"r","e","m">>, <<"%">>, <<"p","t">>, <<"p","c">>, <<"i","n">>, <<"c","m">>, <<"m","m">>, <<"e","x">>, <<"c","h">>, <<"v","w">>, <<"v","h">>, <<"v","m","i","n">>, <<"v","m","a","x">> >>

\* re.match(r'\d+(\.\d+)?(px|em|...|vmax)', part): a prefix of part is a number
\* followed by a unit
LooksLikeSize(part) ==
    \E a \in 1..Len(part) :
        /\ \A k \in 1..a : part[k] \in Digits
        /\ \/ \E u \in DOMAIN size_units : StartsAt(part, a + 1, size_units[u])
           \/ /\ a + 2 <= Len(part)
              /\ part[a + 1] = "."
              /\ \E b \in (a + 2)..Len(part) :
                    /\ \A k \in (a + 2)..b : part[k] \in Digits
                    /\ \E u \in DOMAIN size_units : StartsAt(part, b + 1, size_units[u])

\* str.split(): the runs of characters that are not whitespace
RECURSIVE WordsFrom(_, _)
WordsAt(s, a) ==
    IF a > Len(s) THEN << >>
    ELSE << Slice(s, a, MinOr({j \in a..Len(s) : IsSpace(s[j])}, Len(s) + 1)) >>
            \o WordsFrom(s, MinOr({j \in a..Len(s) : IsSpace(s[j])}, Len(s) + 1))

WordsFrom(s, k) == WordsAt(s, SkipSpace(s, k))

\* ' '.join(parts)
RECURSIVE JoinSpace(_)
JoinSpace(parts) ==
    IF parts = << >> THEN << >>
    ELSE IF Len(parts) = 1 THEN parts[1]
    ELSE parts[1] \o << " " >> \o JoinSpace(Tail(parts))

ShorthandFonts(font_family_part, selector) ==
    IF font_family_part = << >> THEN << >>
    ELSE FamilyFonts(_parse_font_family_value(font_family_part), << selector >>, << >>, << >>)

\* the words after the first one that looks like a size, joined
FamilyPartAfter(parts, size) ==
    IF size = 0 THEN << >> ELSE JoinSpace(SubSeq(parts, size + 1, Len(parts)))

\* the words from the size token on, the size token included
FamilyPartFrom(parts, size) ==
    IF size = 0 THEN << >> ELSE JoinSpace(SubSeq(parts, size, Len(parts)))

FamilyPartWithSize(parts) ==
    FamilyPartFrom(parts, MinOr({k \in DOMAIN parts : LooksLikeSize(parts[k])}, 0))

FamilyPart(parts) ==
    FamilyPartAfter(parts, MinOr({k \in DOMAIN parts : LooksLikeSize(parts[k])}, 0))

_parse_font_shorthand(font_value, selector) ==
    ShorthandFonts(FamilyPart(WordsFrom(font_value, 1)), selector)

\* a rule is [selectorText, style], style being the dict of its declarations
_extract_fonts_from_style_rule(rule) ==
    LET has(k) == k \in DOMAIN rule.style /\ rule.style[k] # << >>
        weights == IF has(s_font_weight)
                   THEN << clean_css_value(rule.style[s_font_weight]) >> ELSE << >>
        styles == IF has(s_font_style)
                  THEN << clean_css_value(rule.style[s_font_style]) >> ELSE << >>
    IN  (IF has(s_font_family)
         THEN FamilyFonts(_parse_font_family_value(rule.style[s_font_family]),
                          << rule.selectorText >>, weights, styles)
         ELSE << >>)
        \o (IF has(s_font)
            THEN _parse_font_shorthand(rule.style[s_font], rule.selectorText)
            ELSE << >>)

\* the pattern  name\s*:\s*([^stops]+)  (IGNORECASE) matches at p:
\* << start of the group, end of the group >>, else << >>
DeclGroup(s, a, e) ==
    IF a > Len(s) \/ s[a] # ":" \/ e = a + 1 THEN << >>
    \* \s* gives back one whitespace character when the group would be empty
    ELSE << IF SkipSpace(s, a + 1) < e THEN SkipSpace(s, a + 1) ELSE e - 1, e >>

DeclMatchAfter(s, a, stops) ==
    DeclGroup(s, a, MinOr({j \in (a + 1)..Len(s) : s[j] \in stops}, Len(s) + 1))

DeclMatchAt(s, p, name, stops) ==
    IF ~StartsAtNoCase(s, p, name) THEN << >>
    ELSE DeclMatchAfter(s, SkipSpace(s, p + Len(name)), stops)

\* re.finditer(r'font-family\s*:\s*([^;}]+)', css, re.IGNORECASE): group(1) of each
\* match, left to right
FamilyMatchAt(css, p) == DeclMatchAt(css, p, s_font_family, {";", "}"})

RECURSIVE FamilyValuesFrom(_, _)
FamilyValuesAt(css, m) == << Slice(css, m[1], m[2]) >> \o FamilyValuesFrom(css, m[2])

FamilyValuesNext(css, start) ==
    IF start = 0 THEN << >> ELSE FamilyValuesAt(css, FamilyMatchAt(css, start))

FamilyValuesFrom(css, k) ==
    FamilyValuesNext(css, MinOr({p \in k..Len(css) : FamilyMatchAt(css, p) # << >>}, 0))

RECURSIVE RegexFamilyFonts(_)
RegexFamilyFonts(values) ==
    IF values = << >> THEN << >>
    ELSE FamilyFonts(_parse_font_family_value(Strip(Head(values))), << >>, << >>, << >>)
            \o RegexFamilyFonts(Tail(values))

_regex_parse_font_families(css_content) ==
    RegexFamilyFonts(FamilyValuesFrom(css_content, 1))

s_at_media == <<"@","m","e","d","i","a">>

\* index of the "}" that closes the "{" at index open (0 if it is never closed)
CloseOf(css, open) ==
    MinOr({j \in open..Len(css) :
              Cardinality({x \in open..j : css[x] = "{"})
                  = Cardinality({x \in open..j : css[x] = "}"})}, 0)

\* the declarations of a block as cssutils keeps them: name lower-cased, value with
\* its whitespace normalised, the last declaration of a name winning
RECURSIVE StyleOf(_, _)
StyleDeclarationInto(style, declaration, colon) ==
    IF colon = 0 THEN style
    ELSE SetProperty(style, Lower(Strip(Slice(declaration, 1, colon))),
                     CollapseSpace(Strip(From(declaration, colon + 1))))

StyleOf(declarations, style) ==
    IF declarations = << >> THEN style
    ELSE StyleOf(Tail(declarations),
                 StyleDeclarationInto(style, Head(declarations),
                                      FirstColon(Head(declarations))))

\* the rules cssutils.parseString(css) yields, as the loops of
\* _parse_font_family_declarations visit them: every top-level style rule, and every
\* rule with a style inside a top-level @media rule (inMedia); other at-rules and
\* statements ending in ";" are passed over
RECURSIVE StyleRulesFrom(_, _, _)
RuleOf(prelude, body, inMedia) ==
    IF StartsAtNoCase(prelude, 1, s_at_media)
    THEN (IF inMedia THEN << >> ELSE StyleRulesFrom(body, 1, TRUE))
    ELSE IF prelude # << >> /\ prelude[1] = "@" THEN << >>
    ELSE << [selectorText |-> prelude, style |-> StyleOf(Split(body, ";"), EmptyDict)] >>

\* the text before the "{" at open, from the last ";" at or after k
PreludeOf(css, k, open, semis) ==
    Strip(Slice(css, IF semis = {} THEN k ELSE Max(semis) + 1, open))

RulesClosedAt(css, k, open, close, inMedia) ==
    IF close = 0 THEN << >>
    ELSE RuleOf(PreludeOf(css, k, open, {j \in k..(open - 1) : css[j] = ";"}),
                Slice(css, open + 1, close), inMedia)
            \o StyleRulesFrom(css, close + 1, inMedia)

RulesOpenedAt(css, k, open, inMedia) ==
    IF open = 0 THEN << >> ELSE RulesClosedAt(css, k, open, CloseOf(css, open), inMedia)

StyleRulesFrom(css, k, inMedia) ==
    RulesOpenedAt(css, k, MinOr({j \in k..Len(css) : css[j] = "{"}, 0), inMedia)

RECURSIVE StyleRuleFonts(_)
StyleRuleFonts(rules) ==
    IF rules = << >> THEN << >>
    ELSE _extract_fonts_from_style_rule(Head(rules)) \o StyleRuleFonts(Tail(rules))

\* structured is FALSE when cssutils raises and the except branch runs
_parse_font_family_declarations(css_content, structured) ==
    IF structured THEN StyleRuleFonts(StyleRulesFrom(css_content, 1, FALSE))
    ELSE _regex_parse_font_families(css_content)

(***************************************************************************)
(* css_parser.py: @import and parse_css_content                            *)
(***************************************************************************)
s_at_import == <<"@","i","m","p","o","r","t">>

s_url_open == <<"u","r","l","(">>

IsImportStop(c) == c \in {"\"", "'", ";", ")"}

\* the match of  @import\s+(?:url\()?["\']?([^"\';\)]+)["\']?\)?[^;]*;  that starts at
\* p, as << start of the group, end of the group, index of the closing ";" >>, or
\* << >> if there is none. The whitespace is greedy and is given back one character
\* at a time; "url(" and the quote are taken when they can be.
ImportGroupStart(w, u, q) == w + (IF u = 1 THEN 4 ELSE 0) + q

ImportGroupEnd(css, g) == MinOr({j \in g..Len(css) : IsImportStop(css[j])}, Len(css) + 1)

ImportGroupOk(css, g, e) == e > g /\ \E j \in e..Len(css) : css[j] = ";"

\* the candidate (w, u, q) matches: whitespace up to w, "url(" taken iff u, a quote iff q
ImportCandidateOk(css, w, u, q) ==
    /\ u = 1 => StartsAtNoCase(css, w, s_url_open)
    /\ q = 1 => (ImportGroupStart(w, u, 0) <= Len(css)
                    /\ IsQuote(css[ImportGroupStart(w, u, 0)]))
    /\ ImportGroupOk(css, ImportGroupStart(w, u, q),
                     ImportGroupEnd(css, ImportGroupStart(w, u, q)))

ImportMatchEnds(css, g, e) == << g, e, Min({j \in e..Len(css) : css[j] = ";"}) >>

ImportMatchFrom(css, g) == ImportMatchEnds(css, g, ImportGroupEnd(css, g))

ImportMatchOf(css, c) == ImportMatchFrom(css, ImportGroupStart(c[1], c[2], c[3]))

\* the candidate the backtracking reaches first: most whitespace, then with "url(",
\* then with the quote
ImportBest(css, cands) ==
    IF cands = {} THEN << >>
    ELSE ImportMatchOf(css, CHOOSE m \in cands : \A n \in cands :
                                \/ n[1] < m[1]
                                \/ n[1] = m[1] /\ n[2] < m[2]
                                \/ n[1] = m[1] /\ n[2] = m[2] /\ n[3] <= m[3])

ImportMatchAfter(css, a) ==
    ImportBest(css, {c \in ((a + 1)..SkipSpace(css, a)) \X {0, 1} \X {0, 1} :
                        ImportCandidateOk(css, c[1], c[2], c[3])})

ImportMatchAt(css, p) ==
    IF ~StartsAtNoCase(css, p, s_at_import) THEN << >>
    ELSE ImportMatchAfter(css, p + Len(s_at_import))

\* the group(1).strip() of every match, in order
RECURSIVE ImportUrlsFrom(_, _)
ImportUrlsAt(css, m) == << Strip(Slice(css, m[1], m[2])) >> \o ImportUrlsFrom(css, m[3] + 1)

ImportUrlsNext(css, start) ==
    IF start = 0 THEN << >> ELSE ImportUrlsAt(css, ImportMatchAt(css, start))

ImportUrlsFrom(css, k) ==
    ImportUrlsNext(css, MinOr({p \in k..Len(css) : ImportMatchAt(css, p) # << >>}, 0))

\* base_url is self.base_url, an Optional[str]
ResolvedImports(urls, base_url) ==
    [k \in DOMAIN urls |-> IF base_url # None /\ base_url[1] # << >>
                           THEN urljoin(base_url[1], urls[k]) ELSE urls[k]]

ImportsOf(css, base_url) == ResolvedImports(ImportUrlsFrom(css, 1), base_url)

_extract_css_imports(css_content, base_url) == ImportsOf(css_content, base_url)

_extract_css_imports_raises(css_content, base_url) ==
    /\ base_url # None /\ base_url[1] # << >>
    /\ \E import_url \in Range(ImportUrlsFrom(css_content, 1)) : urljoin_raises(import_url)

\* parse_css_content: the fonts it returns, the urls it appends to self.css_imports,
\* and whether its except branch ran. An exception leaves the sub-steps after it
\* undone: one in the @font-face step returns no font at all, one in the @import
\* step keeps the fonts and appends no import
ParseOutcome(found, css_content, base_url) ==
    IF _extract_css_imports_raises(css_content, base_url)
    THEN [fonts |-> found, imports |-> << >>, raised |-> TRUE]
    ELSE [fonts |-> found,
          imports |-> _extract_css_imports(css_content, base_url),
          raised |-> FALSE]

parse_css_content(css_content, base_url, source_url, structured) ==
    IF _parse_font_face_declarations_raises(css_content, base_url, source_url)
    THEN [fonts |-> << >>, imports |-> << >>, raised |-> TRUE]
    ELSE ParseOutcome(_parse_font_face_declarations(css_content, base_url, source_url)
                         \o _parse_font_family_declarations(css_content, structured),
                      css_content, base_url)

(***************************************************************************)
(* css_parser.py: merge_duplicate_fonts                                    *)
(***************************************************************************)
\* for font in fonts: the loop has an element left at index i
MoreFontsShort(fonts, i) == i < Len(fonts)

MoreFonts(fonts, i) == i <= Len(fonts)

\* existing.xs.extend(font.xs); existing.xs = list(set(existing.xs)): the distinct
\* elements of both lists, in whatever order the set yields them
MergeListsConcat(existing, new) == { existing \o new }

MergeListsLast(existing, new) == SetOrders(Range(new))

MergeLists(existing, new) == SetOrders(Range(existing) \cup Range(new))

\* key in font_map, font_map being the list of its [key, font] items in insertion order
InMap(font_map, key) == \E e \in DOMAIN font_map : font_map[e].key = key

\* font_map[key]
MapGet(font_map, key) == font_map[CHOOSE e \in DOMAIN font_map : font_map[e].key = key].font

\* list(font_map.values())
MapValues(font_map) == [e \in DOMAIN font_map |-> font_map[e].font]

(***************************************************************************)
(* font_detector.py: _filter_fonts                                         *)
(***************************************************************************)
generic_families ==
    { <<"s","e","r","i","f">>,
      <<"s","a","n","s","-","s","e","r","i","f">>,
      <<"m","o","n","o","s","p","a","c","e">>,
      <<"c","u","r","s","i","v","e">>,
      <<"f","a","n","t","a","s","y">>,
      <<"s","y","s","t","e","m","-","u","i">>,
      <<"u","i","-","s","e","r","i","f">>,
      <<"u","i","-","s","a","n","s","-","s","e","r","i","f">>,
      <<"u","i","-","m","o","n","o","s","p","a","c","e">> }

SkipsSystemNever(include_system, font) == FALSE

\* not self.include_system and font.type == 'system'
SkipsSystem(include_system, font) == ~include_system /\ font.type = s_system

\* not font.name or font.name.strip() == ''
SkipsNameless(font) == font.name = << >> \/ Strip(font.name) = << >>

SkipsGenericExact(font) == font.name \in generic_families

\* font.name.lower() in generic_families
SkipsGeneric(font) == Lower(font.name) \in generic_families

\* fonts is a list of object ids, h the objects; the result is the list of the ids
\* the loop appends
_filter_fonts(fonts, h, include_system) ==
    LET kept(k) == /\ ~SkipsSystem(include_system, h[fonts[k]])
                   /\ ~SkipsNameless(h[fonts[k]])
                   /\ ~SkipsGeneric(h[fonts[k]])
    IN  Keep(fonts, kept)

(***************************************************************************)
(* font_detector.py: inline styles and web font services                   *)
(***************************************************************************)
s_inline_style == <<"[","i","n","l","i","n","e"," ","s","t","y","l","e","]">>

\* re.search(name\s*:\s*([^;]+), s, re.IGNORECASE): None, or Some(group(1))
DeclGroupOf(s, m) == Some(Slice(s, m[1], m[2]))

DeclSearchFrom(s, name, start) ==
    IF start = 0 THEN None ELSE DeclGroupOf(s, DeclMatchAt(s, start, name, {";"}))

DeclSearch(s, name) ==
    DeclSearchFrom(s, name,
                   MinOr({p \in 1..Len(s) : DeclMatchAt(s, p, name, {";"}) # << >>}, 0))

\* [group(1).strip()] of a match, [] of None
StrippedGroup(match) == IF match # None THEN << Strip(match[1]) >> ELSE << >>

InlineStyleFonts(match, font_weight_match, font_style_match) ==
    IF match = None THEN << >>
    ELSE FamilyFonts(_parse_font_family_value(Strip(match[1])), << s_inline_style >>,
                     StrippedGroup(font_weight_match), StrippedGroup(font_style_match))

_parse_inline_style(style_content) ==
    InlineStyleFonts(DeclSearch(style_content, s_font_family),
                     DeclSearch(style_content, s_font_weight),
                     DeclSearch(style_content, s_font_style))

RECURSIVE InlineFonts(_)
InlineFonts(inline_styles) ==
    IF inline_styles = << >> THEN << >>
    ELSE _parse_inline_style(Head(inline_styles)) \o InlineFonts(Tail(inline_styles))

s_family_eq == <<"f","a","m","i","l","y","=">>

s_wght == <<":","w","g","h","t","@">>

s_ital == <<"i","t","a","l">>

s_dot_js == <<".","j","s">>

s_unknown == <<"u","n","k","n","o","w","n">>

s_icon == <<"i","c","o","n">>

\* re.findall(r'family=([^&:]+)', url)
RECURSIVE GoogleFamiliesFrom(_, _)
GoogleFamilyTo(url, g, e) == << Slice(url, g, e) >> \o GoogleFamiliesFrom(url, e)

GoogleFamilyAt(url, g) ==
    GoogleFamilyTo(url, g, MinOr({j \in g..Len(url) : url[j] \in {"&", ":"}}, Len(url) + 1))

GoogleFamiliesNext(url, start) ==
    IF start = 0 THEN << >> ELSE GoogleFamilyAt(url, start + Len(s_family_eq))

GoogleFamiliesFrom(url, k) ==
    GoogleFamiliesNext(url, MinOr({p \in k..Len(url) :
                                      /\ StartsAt(url, p, s_family_eq)
                                      /\ p + Len(s_family_eq) <= Len(url)
                                      /\ url[p + Len(s_family_eq)] \notin {"&", ":"}}, 0))

\* re.search(rf'family={re.escape(match)}:wght@([^&]+)', url): None, or
\* Some(group(1).split(';'))
GoogleWeightsAt(url, g) ==
    Some(Split(Slice(url, g, MinOr({j \in g..Len(url) : url[j] = "&"}, Len(url) + 1)), ";"))

GoogleWeightsNext(url, head, start) ==
    IF start = 0 THEN None ELSE GoogleWeightsAt(url, start + Len(head))

GoogleWeightsOf(url, head) ==
    GoogleWeightsNext(url, head, MinOr({p \in 1..Len(url) :
                                           /\ StartsAt(url, p, head)
                                           /\ p + Len(head) <= Len(url)
                                           /\ url[p + Len(head)] # "&"}, 0))

GoogleWeights(url, match) == GoogleWeightsOf(url, s_family_eq \o match \o s_wght)

GoogleFont(url, match, weight_match) ==
    [Font([c \in DOMAIN match |-> IF match[c] = "+" THEN " " ELSE match[c]], s_web) EXCEPT
        !.source = Some(url),
        !.provider = Some(s_Google_Fonts),
        !.weights = IF weight_match # None THEN weight_match[1] ELSE << >>,
        !.styles = IF Contains(url, s_ital) THEN << s_italic >> ELSE << s_normal >>]

GoogleFonts(url, matches) ==
    [k \in DOMAIN matches |-> GoogleFont(url, matches[k], GoogleWeights(url, matches[k]))]

_analyze_google_fonts_url(url) == GoogleFonts(url, GoogleFamiliesFrom(url, 1))

IsAlnum(c) ==
    \/ \E k \in DOMAIN LowerChars : LowerChars[k] = c \/ UpperChars[k] = c
    \/ c \in Digits

\* re.search(r'/([a-zA-Z0-9]+)\.js', url): group(1), or 'unknown'
KitRunEnd(url, p) ==
    Min({j \in (p + 1)..(Len(url) + 1) : j > Len(url) \/ ~IsAlnum(url[j])})

KitIdAt(url, start) ==
    IF start = 0 THEN s_unknown ELSE Slice(url, start + 1, KitRunEnd(url, start))

KitId(url) ==
    KitIdAt(url, MinOr({p \in 1..Len(url) :
                           /\ url[p] = "/"
                           /\ KitRunEnd(url, p) > p + 1
                           /\ StartsAt(url, KitRunEnd(url, p), s_dot_js)}, 0))

_analyze_adobe_fonts_url(url) ==
    << [Font(<<"A","d","o","b","e"," ","F","o","n","t","s"," ","K","i","t"," ","(">> \o KitId(url) \o <<")">>, s_web) EXCEPT
           !.source = Some(url), !.provider = Some(s_Adobe_Fonts)] >>

_analyze_font_awesome_url(url) ==
    << [Font(s_Font_Awesome, s_web) EXCEPT
           !.source = Some(url), !.provider = Some(s_Font_Awesome),
           !.format = Some(s_icon)] >>

\* web_font_services is a list of [provider, url, type]
RECURSIVE _analyze_web_font_services(_)
ServiceFonts(provider, url) ==
    IF provider = s_Google_Fonts THEN _analyze_google_fonts_url(url)
    ELSE IF provider = s_Adobe_Fonts THEN _analyze_adobe_fonts_url(url)
    ELSE IF provider = s_Font_Awesome THEN _analyze_font_awesome_url(url)
    ELSE << [Font(<<"W","e","b"," ","F","o","n","t"," ","(">> \o provider \o <<")">>, s_web) EXCEPT
                !.source = Some(url), !.provider = Some(provider)] >>

_analyze_web_font_services(web_font_services) ==
    IF web_font_services = << >> THEN << >>
    ELSE ServiceFonts(Head(web_font_services).provider, Head(web_font_services).url)
            \o _analyze_web_font_services(Tail(web_font_services))

u_page == <<"h","t","t","p","s",":","/","/","x",".","t","e","s","t","/">>

(***************************************************************************)
(* scraper.py: WebScraper. A page is what BeautifulSoup finds in its HTML: *)
(* [styles: the text of each <style> tag, links: the <link> tags as        *)
(* [stylesheet, href], scripts: the src of each <script>, attrs: the style *)
(* attribute of each element that has one]. A response is [kind: "fail"],  *)
(* [kind: "html", page] or [kind: "css", text, css_type].                  *)
(***************************************************************************)
s_inline == <<"i","n","l","i","n","e">>

s_link == <<"l","i","n","k">>

s_script == <<"s","c","r","i","p","t">>

\* a url the site does not serve fails like one it refuses
Respond(served, u) == IF u \in DOMAIN served THEN served[u] ELSE [kind |-> "fail"]

\* utils.validate_url: urlparse finds a scheme and a host, and does not raise
validate_url(u) == HasScheme(u) /\ Netloc(u) # << >> /\ ~urljoin_raises(u)

\* _fetch_html: the Optional page it returns, and fetched_urls afterwards. HTML is
\* served at page urls only.
HtmlOf(response) == IF response.kind = "html" THEN Some(response.page) ELSE None

_fetch_html(served, fetched, u) ==
    IF u \in fetched THEN [content |-> None, fetched_urls |-> fetched]
    ELSE [content |-> HtmlOf(Respond(served, u)), fetched_urls |-> fetched \cup {u}]

\* any(marker in content.lower() for marker in ['@', '{', '}', 'font-family'])
LooksLikeCss(content) ==
    \/ \E k \in DOMAIN content : content[k] \in {"@", "{", "}"}
    \/ Contains(Lower(content), s_font_family)

\* _fetch_css: the Optional text it returns, and fetched_urls afterwards. Style
\* sheets are served at urls that serve no HTML.
CssOf(response) ==
    IF response.kind # "css" THEN None
    ELSE IF ~response.css_type /\ ~LooksLikeCss(response.text) THEN None
    ELSE Some(response.text)

\* _fetch_css without self.fetched_urls.add(css_url)
_fetch_css_forgetful(served, fetched, css_url) ==
    IF css_url \in fetched THEN [content |-> None, fetched_urls |-> fetched]
    ELSE [content |-> CssOf(Respond(served, css_url)), fetched_urls |-> fetched]

_fetch_css(served, fetched, css_url) ==
    IF css_url \in fetched THEN [content |-> None, fetched_urls |-> fetched]
    ELSE [content |-> CssOf(Respond(served, css_url)),
          fetched_urls |-> fetched \cup {css_url}]

NonEmpty(str) == str # << >>

_extract_inline_css(page) == SelectSeq(page.styles, NonEmpty)

RECURSIVE StyleImports(_, _)
StyleImports(styles, base_url) ==
    IF styles = << >> THEN << >>
    ELSE ImportsOf(Head(styles), Some(base_url)) \o StyleImports(Tail(styles), base_url)

\* the hrefs of the <link rel=stylesheet> tags, resolved, then the @import urls of
\* the <style> tags
IsStylesheetLink(t) == t.stylesheet /\ t.href # << >>

ResolvedLinks(link_tags, base_url) ==
    [k \in DOMAIN link_tags |-> urljoin(base_url, link_tags[k].href)]

_extract_css_links(page, base_url) ==
    ResolvedLinks(SelectSeq(page.links, IsStylesheetLink), base_url)
        \o StyleImports(_extract_inline_css(page), base_url)

_extract_css_links_raises(page, base_url) ==
    \/ \E t \in Range(page.links) : t.stylesheet /\ urljoin_raises(t.href)
    \/ \E style \in Range(page.styles) : _extract_css_imports_raises(style, Some(base_url))

\* the loop of fetch_page over css_files: the (content, url) pairs, the errors and
\* fetched_urls afterwards
RECURSIVE FetchCssFiles(_, _, _)
\* one turn of the loop: css_content is what _fetch_css returned for css_url, rest the
\* outcome of the turns after it
\* the same, a failed fetch leaving no error
FetchedIntoSilent(rest, css_url, css_content) ==
    IF css_content # None /\ css_content[1] # << >>
    THEN [rest EXCEPT !.css_contents =
                          << [content |-> css_content[1], url |-> css_url] >> \o @]
    ELSE rest

FetchedInto(rest, css_url, css_content) ==
    IF css_content # None /\ css_content[1] # << >>
    THEN [rest EXCEPT !.css_contents =
                          << [content |-> css_content[1], url |-> css_url] >> \o @]
    ELSE [rest EXCEPT !.errors = << <<"F","a","i","l","e","d"," ","t","o"," ","f","e","t","c","h"," ","C","S","S"," ","f","r","o","m"," ">> \o css_url >> \o @]

FetchCssFile(served, css_files, got) ==
    FetchedInto(FetchCssFiles(served, got.fetched_urls, Tail(css_files)),
                Head(css_files), got.content)

FetchCssFiles(served, fetched, css_files) ==
    IF css_files = << >>
    THEN [css_contents |-> << >>, errors |-> << >>, fetched_urls |-> fetched]
    ELSE FetchCssFile(served, css_files, _fetch_css(served, fetched, Head(css_files)))

\* ScrapeResults(url=u); css_content and css_sources are attributes fetch_page sets
\* on it, has_css_content is hasattr(results, 'css_content')
ScrapeResults(u) ==
    [url |-> u, fonts |-> << >>, css_files |-> << >>, errors |-> << >>,
     statistics |-> EmptyDict, has_css_content |-> FALSE,
     css_content |-> << >>, css_sources |-> << >>]

add_error(res, error) == [res EXCEPT !.errors = Append(@, error)]

ContentsOf(css_contents) == [k \in DOMAIN css_contents |-> css_contents[k].content]

UrlsOf(css_contents) == [k \in DOMAIN css_contents |-> css_contents[k].url]

\* the results once the style sheets of css_files are fetched (got)
PageResults(u, inline_css, css_files, got) ==
    [results |->
        [ScrapeResults(u) EXCEPT
            !.css_files = css_files,
            !.errors = got.errors,
            !.has_css_content = TRUE,
            !.css_content = inline_css \o ContentsOf(got.css_contents),
            !.css_sources = << s_inline >> \o UrlsOf(got.css_contents)],
     fetched_urls |-> got.fetched_urls]

FetchLinked(served, fetched, u, inline_css, css_files) ==
    PageResults(u, inline_css, css_files, FetchCssFiles(served, fetched, css_files))

\* the part of fetch_page after _fetch_html returned html
FetchedPage(served, u, html) ==
    IF html.content = None
    THEN [results |-> add_error(ScrapeResults(u),
                                <<"F","a","i","l","e","d"," ","t","o"," ","f","e","t","c","h"," ","H","T","M","L"," ","c","o","n","t","e","n","t"," ","f","r","o","m"," ">> \o u),
          fetched_urls |-> html.fetched_urls]
    ELSE IF _extract_css_links_raises(html.content[1], u)
    THEN [results |-> add_error(ScrapeResults(u),
                                <<"E","r","r","o","r"," ","f","e","t","c","h","i","n","g"," ","p","a","g","e"," ">> \o u
                                    \o <<":"," ","I","n","v","a","l","i","d"," ","I","P","v","6"," ","U","R","L">>),
          fetched_urls |-> html.fetched_urls]
    ELSE FetchLinked(served, html.fetched_urls, u, _extract_inline_css(html.content[1]),
                     _extract_css_links(html.content[1], u))

\* WebScraper.fetch_page: the ScrapeResults it returns, and fetched_urls afterwards
fetch_page(served, fetched, u) ==
    IF ~validate_url(u)
    THEN [results |-> add_error(ScrapeResults(u), <<"I","n","v","a","l","i","d"," ","U","R","L",":"," ">> \o u),
          fetched_urls |-> fetched]
    ELSE FetchedPage(served, u, _fetch_html(served, fetched, u))

\* extract_style_attributes: the style attributes that have 'font' in them
extract_style_attributes(page) ==
    SelectSeq(page.attrs, LAMBDA style_content : Contains(Lower(style_content), s_font))

\* the entries detect_web_font_services makes of the hrefs that satisfy hit
EntriesOf(found, provider, type, base_url) ==
    [k \in DOMAIN found |->
        [provider |-> provider, url |-> urljoin(base_url, found[k]), type |-> type]]

ServiceEntries(hrefs, hit(_), provider, type, base_url) ==
    EntriesOf(SelectSeq(hrefs, hit), provider, type, base_url)

ContainsNoCase(str, lit) == Contains(Lower(str), Lower(lit))

s_cdnjs_host == <<"c","d","n","j","s",".","c","l","o","u","d","f","l","a","r","e",".","c","o","m">>

\* re.search(r'cdnjs\.cloudflare\.com.*font', x, re.IGNORECASE)
CdnjsFont(x) ==
    \E p \in 1..Len(x) :
       /\ StartsAtNoCase(x, p, s_cdnjs_host)
       /\ \E q \in (p + Len(s_cdnjs_host))..Len(x) : StartsAtNoCase(x, q, s_font)

IsGoogleHref(x) == Contains(x, <<"f","o","n","t","s",".","g","o","o","g","l","e","a","p","i","s",".","c","o","m">>)

IsTypekitSrc(x) ==
    \/ Contains(x, <<"u","s","e",".","t","y","p","e","k","i","t",".","n","e","t">>)
    \/ Contains(x, <<"u","s","e",".","t","y","p","e","k","i","t",".","c","o","m">>)

IsFontAwesomeHref(x) ==
    \/ Contains(x, <<"f","o","n","t","a","w","e","s","o","m","e">>)
    \/ Contains(x, <<"f","o","n","t","-","a","w","e","s","o","m","e">>)

IsFontsComHref(x) == ContainsNoCase(x, <<"f","o","n","t","s",".","c","o","m">>)

IsWebtypeHref(x) == ContainsNoCase(x, <<"w","e","b","t","y","p","e",".","c","o","m">>)

IsTypographyHref(x) == ContainsNoCase(x, <<"t","y","p","o","g","r","a","p","h","y",".","c","o","m">>)

HasHref(t) == t.href # << >>

HrefsOf(tags) == [k \in DOMAIN tags |-> tags[k].href]

\* hrefs: the href of every <link> that has one; srcs: the src of every <script>
ServicesOf(hrefs, srcs, base_url) ==
    ServiceEntries(hrefs, IsGoogleHref, s_Google_Fonts, s_link, base_url)
        \o ServiceEntries(srcs, IsTypekitSrc, s_Adobe_Fonts, s_script, base_url)
        \o ServiceEntries(hrefs, IsFontAwesomeHref, s_Font_Awesome, s_link, base_url)
        \o ServiceEntries(hrefs, CdnjsFont, s_CDNJS, s_link, base_url)
        \o ServiceEntries(hrefs, IsFontsComHref, <<"F","o","n","t","s",".","c","o","m">>, s_link, base_url)
        \o ServiceEntries(hrefs, IsWebtypeHref, <<"W","e","b","t","y","p","e">>, s_link, base_url)
        \o ServiceEntries(hrefs, IsTypographyHref, <<"T","y","p","o","g","r","a","p","h","y",".","c","o","m">>, s_link, base_url)

detect_web_font_services(page, base_url) ==
    ServicesOf(HrefsOf(SelectSeq(page.links, HasHref)), SelectSeq(page.scripts, NonEmpty),
               base_url)

\* urljoin raises for one of the hrefs or srcs an entry is made of
detect_web_font_services_raises(page) ==
    \/ \E t \in Range(page.links) :
          /\ urljoin_raises(t.href)
          /\ \/ IsGoogleHref(t.href) \/ IsFontAwesomeHref(t.href) \/ CdnjsFont(t.href)
             \/ IsFontsComHref(t.href) \/ IsWebtypeHref(t.href) \/ IsTypographyHref(t.href)
    \/ \E src \in Range(page.scripts) : IsTypekitSrc(src) /\ urljoin_raises(src)

(***************************************************************************)
(* utils.py: ScrapeResults                                                 *)
(***************************************************************************)
\* add_font for each font of a list, in order: "font not in self.fonts" compares
\* the fields of the objects
RECURSIVE AddFonts(_, _, _)
AddFonts(res_fonts, new_fonts, h) ==
    IF new_fonts = << >> THEN res_fonts
    ELSE AddFonts(IF \E k \in DOMAIN res_fonts : h[res_fonts[k]] = h[Head(new_fonts)]
                  THEN res_fonts ELSE Append(res_fonts, Head(new_fonts)),
                  Tail(new_fonts), h)

\* the number of the fonts of a list of ids that satisfy test
CountFonts(ids, h, test(_)) == Cardinality({k \in DOMAIN ids : test(h[ids[k]])})

\* the statistics left as they were, not recomputed from the fonts
update_statistics_stale(res, h) == res

update_statistics(res, h) ==
    [res EXCEPT !.statistics =
        ("total_fonts" :> Len(res.fonts))
        @@ ("web_fonts" :> CountFonts(res.fonts, h, LAMBDA f : f.type = s_web))
        @@ ("system_fonts" :> CountFonts(res.fonts, h, LAMBDA f : f.type = s_system))
        @@ ("custom_fonts" :> CountFonts(res.fonts, h, LAMBDA f : f.type = s_custom))
        @@ ("css_files" :> Len(res.css_files))
        @@ ("google_fonts" :>
                CountFonts(res.fonts, h, LAMBDA f : f.provider = Some(s_Google_Fonts)))
        @@ ("adobe_fonts" :>
                CountFonts(res.fonts, h, LAMBDA f : f.provider = Some(s_Adobe_Fonts)))]

(***************************************************************************)
(* State                                                                   *)
(***************************************************************************)
VARIABLES
    pc,         \* where the program is
    heap,       \* the Font objects: object id -> fields
    fonts,      \* merge_duplicate_fonts: the argument, a list of object ids
    font_map,   \* merge_duplicate_fonts: the dict, as its items in insertion order
    i,          \* merge_duplicate_fonts: index of the next element of fonts
    merged,     \* the list the last call of merge_duplicate_fonts returned
    input,      \* the Font values of the first call's argument, as they were passed
    perm,       \* a permutation of the positions of input
    out1,       \* the fields of the entries merge(input) returned, at its return
    out2,       \* the same for merge(merge(input))
    outP,       \* the same for merge(copies of input, in the order perm)
    blocks,     \* the @font-face blocks of the blob under parse, as they were written
    tail,       \* the text of the blob after its @font-face blocks
    parse_out,  \* what parse_css_content did with the blob
    url,        \* the argument of analyze_website; the base_url of the CSSParser
    site,       \* what the network serves: url -> response
    include_system,     \* FontDetector.include_system
    skip_external,      \* FontDetector.skip_external
    fetched_urls,       \* WebScraper.fetched_urls
    results,    \* the ScrapeResults of the call
    all_fonts,  \* analyze_website: all_fonts, a list of object ids
    css_imports,        \* CSSParser.css_imports
    j,          \* analyze_website: index of the next element of the list a loop is on
    filtered    \* the list the last call of _filter_fonts returned

mergeVars == << heap, fonts, font_map, i, merged >>

harnessVars == << input, perm, out1, out2, outP >>

parseVars == << blocks, tail, parse_out >>

detectorVars == << url, site, include_system, skip_external, fetched_urls, results,
                   all_fonts, css_imports, j >>

vars == << pc, mergeVars, harnessVars, parseVars, detectorVars, filtered >>

(***************************************************************************)
(* merge_duplicate_fonts, one iteration of its loop per step               *)
(***************************************************************************)
\* the call merge_duplicate_fonts(arg)
CallMerge(arg) ==
    /\ fonts' = arg
    /\ font_map' = << >>
    /\ i' = 1

\* the body of "for font in fonts" for the element at index i
merge_iter ==
    /\ pc \in {"merge", "merge_again", "merge_perm", "analyze_merge"}
    /\ MoreFonts(fonts, i)
    /\ LET font == fonts[i]
           key == KeyOf(heap[font])
       IN  IF InMap(font_map, key)
           THEN LET existing_font == MapGet(font_map, key)
                IN  /\ \E w \in MergeLists(heap[existing_font].weights, heap[font].weights),
                          st \in MergeLists(heap[existing_font].styles, heap[font].styles),
                          se \in MergeLists(heap[existing_font].selectors, heap[font].selectors) :
                          heap' = [heap EXCEPT ![existing_font] =
                                     [@ EXCEPT !.weights = w, !.styles = st, !.selectors = se,
                                               !.font_face_data =
                                                   DictUpdate(@, heap[font].font_face_data)]]
                    /\ UNCHANGED font_map
           ELSE /\ font_map' = Append(font_map, [key |-> key, font |-> font])
                /\ UNCHANGED heap
    /\ i' = i + 1
    /\ UNCHANGED << pc, fonts, merged, harnessVars, parseVars, detectorVars, filtered >>

\* what a caller sees of a returned list: the fields of its entries
Snapshot(ids, h) == [k \in DOMAIN ids |-> h[ids[k]]]

\* merge(input) returns; the harness calls merge on the returned list
merge_return ==
    /\ pc = "merge"
    /\ ~MoreFonts(fonts, i)
    /\ merged' = MapValues(font_map)
    /\ out1' = Snapshot(merged', heap)
    /\ CallMerge(merged')
    /\ pc' = "merge_again"
    /\ UNCHANGED << heap, input, perm, out2, outP, parseVars, detectorVars, filtered >>

\* merge(merge(input)) returns; the harness calls merge on the permuted copies
merge_again_return ==
    /\ pc = "merge_again"
    /\ ~MoreFonts(fonts, i)
    /\ merged' = MapValues(font_map)
    /\ out2' = Snapshot(merged', heap)
    /\ CallMerge([k \in DOMAIN input |-> Len(input) + k])
    /\ pc' = "merge_perm"
    /\ UNCHANGED << heap, input, perm, out1, outP, parseVars, detectorVars, filtered >>

\* merge(permuted copies) returns
merge_perm_return ==
    /\ pc = "merge_perm"
    /\ ~MoreFonts(fonts, i)
    /\ merged' = MapValues(font_map)
    /\ outP' = Snapshot(merged', heap)
    /\ pc' = "merge_done"
    /\ UNCHANGED << heap, fonts, font_map, i, input, perm, out1, out2,
                    parseVars, detectorVars, filtered >>

(***************************************************************************)
(* The inputs of the merge harness                                         *)
(***************************************************************************)
MaxFonts == 3

s_Test == <<"T","e","s","t">>

s_Arial == <<"A","r","i","a","l">>

s_700 == <<"7","0","0">>

s_body == <<"b","o","d","y">>

s_dot_a == <<".","a">>

u_test_woff2 == <<"h","t","t","p","s",":","/","/","x",".","t","e","s","t","/","t",".","w","o","f","f","2">>

\* raw entries as the parsers build them: two @font-face entries of one source, two
\* style-rule entries of the same name without a source, one of a system font
FontPool ==
    { [Font(s_Test, s_web) EXCEPT
          !.source = Some(u_test_woff2), !.format = Some(s_woff2),
          !.provider = Some(s_Custom), !.weights = << s_700 >>,
          !.font_face_data = (s_font_family :> s_Test) @@ (s_font_weight :> s_700)],
      [Font(s_Test, s_web) EXCEPT
          !.source = Some(u_test_woff2), !.format = Some(s_woff2),
          !.provider = Some(s_Custom), !.weights = << s_400 >>, !.styles = << s_italic >>,
          !.font_face_data = (s_font_family :> s_Test) @@ (s_font_weight :> s_normal)
                                @@ (s_font_style :> s_italic)],
      [Font(s_Test, s_custom) EXCEPT !.selectors = << s_body >>],
      [Font(s_Test, s_custom) EXCEPT
          !.selectors = << s_dot_a >>, !.weights = << s_700 >>, !.styles = << s_italic >>],
      [Font(s_Arial, s_system) EXCEPT !.selectors = << s_body >>, !.weights = << s_400 >>] }

\* no blob is under parse
NoParse ==
    /\ blocks = << >>
    /\ tail = << >>
    /\ parse_out = << >>

\* no page is under analysis
NoAnalysis ==
    /\ url = << >>
    /\ site = << >>
    /\ skip_external = FALSE
    /\ fetched_urls = {}
    /\ results = << >>
    /\ all_fonts = << >>
    /\ css_imports = << >>
    /\ j = 1

InitMerge ==
    /\ NoParse
    /\ NoAnalysis
    /\ include_system = TRUE
    /\ filtered = << >>
    /\ \E n \in 0..MaxFonts : input \in [1..n -> FontPool]
    /\ perm \in Permutations(DOMAIN input)
    /\ heap = [id \in 1..(2 * Len(input)) |->
                 IF id <= Len(input) THEN input[id] ELSE input[perm[id - Len(input)]]]
    /\ fonts = [k \in DOMAIN input |-> k]
    /\ font_map = << >>
    /\ i = 1
    /\ merged = << >>
    /\ out1 = << >>
    /\ out2 = << >>
    /\ outP = << >>
    /\ pc = "merge"

NextMerge ==
    \/ merge_iter
    \/ merge_return
    \/ merge_again_return
    \/ merge_perm_return

SpecMerge == InitMerge /\ [][NextMerge]_vars

(***************************************************************************)
(* Claims about merge_duplicate_fonts (SpecMerge)                          *)
(***************************************************************************)
\* the positions of vals whose entry has the identity key
Members(vals, key) == {k \in DOMAIN vals : KeyOf(vals[k]) = key}

NoDuplicates(xs) == Cardinality(Range(xs)) = Len(xs)

\* the set union of a list field over the members of a key
WeightsOf(vals, key) == UNION {Range(vals[m].weights) : m \in Members(vals, key)}

StylesOf(vals, key) == UNION {Range(vals[m].styles) : m \in Members(vals, key)}

SelectorsOf(vals, key) == UNION {Range(vals[m].selectors) : m \in Members(vals, key)}

\* merge(input) has returned
Returned1 == pc \in {"merge_again", "merge_perm", "merge_done"}

\* merge(merge(input)) has returned
Returned2 == pc \in {"merge_perm", "merge_done"}

\* C1: merge_duplicate_fonts returns exactly one entry per distinct identity key
\* (name, type, source), in first-seen order of the keys; the entry of a key with
\* more than one member has as weights, styles and selectors the duplicate-free set
\* union of the members' lists, and the entry of a key that occurs once is the
\* input entry unchanged.
C1_MergeGroups ==
    Returned1 =>
        /\ {KeyOf(out1[k]) : k \in DOMAIN out1} = {KeyOf(input[k]) : k \in DOMAIN input}
        /\ \A a, b \in DOMAIN out1 :
              a < b => /\ KeyOf(out1[a]) # KeyOf(out1[b])
                       /\ Min(Members(input, KeyOf(out1[a])))
                             < Min(Members(input, KeyOf(out1[b])))
        /\ \A k \in DOMAIN out1 :
              LET key == KeyOf(out1[k])
              IN  IF Cardinality(Members(input, key)) > 1
                  THEN /\ Range(out1[k].weights) = WeightsOf(input, key)
                       /\ Range(out1[k].styles) = StylesOf(input, key)
                       /\ Range(out1[k].selectors) = SelectorsOf(input, key)
                       /\ NoDuplicates(out1[k].weights)
                       /\ NoDuplicates(out1[k].styles)
                       /\ NoDuplicates(out1[k].selectors)
                  ELSE out1[k] = input[Min(Members(input, key))]

\* a call that merged three entries of two keys, the members of one key bringing
\* different weights
C1_Witness ==
    /\ Returned1
    /\ Len(input) = 3
    /\ Len(out1) = 2
    /\ \E k \in DOMAIN out1 : Len(out1[k].weights) = 2

\* two returned lists have the same entries: the same keys in the same order, and
\* per key the same weights, styles and selectors as sets and the same face data
SameEntries(xs, ys) ==
    /\ Len(xs) = Len(ys)
    /\ \A k \in DOMAIN xs :
          /\ KeyOf(xs[k]) = KeyOf(ys[k])
          /\ Range(xs[k].weights) = Range(ys[k].weights)
          /\ Range(xs[k].styles) = Range(ys[k].styles)
          /\ Range(xs[k].selectors) = Range(ys[k].selectors)
          /\ xs[k].font_face_data = ys[k].font_face_data

\* C2: merge_duplicate_fonts is idempotent: merge(merge(x)) has the same entries as
\* merge(x), the same keys in the same order and per key the same weights, styles,
\* selectors sets and face data.
C2_MergeIdempotent == Returned2 => SameEntries(out2, out1)

\* the second call was given a list the first call had shortened
C2_Witness ==
    /\ Returned2
    /\ Len(out1) = 2
    /\ Len(input) = 3
    /\ Len(out2) = 2

\* C3: merge_duplicate_fonts is order-independent: a permutation of the input gives
\* the same set of identity keys, and per key the same weights, styles and
\* selectors sets.
C3_MergeOrderIndependent ==
    pc = "merge_done" =>
        /\ {KeyOf(outP[k]) : k \in DOMAIN outP} = {KeyOf(out1[k]) : k \in DOMAIN out1}
        /\ \A a \in DOMAIN out1, b \in DOMAIN outP :
              KeyOf(out1[a]) = KeyOf(outP[b]) =>
                  /\ Range(out1[a].weights) = Range(outP[b].weights)
                  /\ Range(out1[a].styles) = Range(outP[b].styles)
                  /\ Range(out1[a].selectors) = Range(outP[b].selectors)

\* a permutation that changes which member of a merged key comes first, and the
\* order of the keys in the result
C3_Witness ==
    /\ pc = "merge_done"
    /\ Len(out1) = 2
    /\ KeyOf(out1[1]) = KeyOf(outP[2])
    /\ \E a, b \in DOMAIN input :
          /\ a < b
          /\ KeyOf(input[a]) = KeyOf(input[b])
          /\ input[a] # input[b]
          /\ perm[b] < perm[a]

\* C4: merge_duplicate_fonts treats the entries it is given as immutable: after
\* merge(fonts) returns, every Font object of the input list still has the weights,
\* styles, selectors and font_face_data it had before the call.
C4_InputsUntouched ==
    Returned1 =>
        \A id \in DOMAIN input :
            /\ heap[id].weights = input[id].weights
            /\ heap[id].styles = input[id].styles
            /\ heap[id].selectors = input[id].selectors
            /\ heap[id].font_face_data = input[id].font_face_data

(***************************************************************************)
(* The blobs of the parse harness: @font-face blocks written from their    *)
(* parts, so that what each block declares is known apart from the parser  *)
(***************************************************************************)
MaxBlocks == 2

u_sheet == <<"h","t","t","p","s",":","/","/","x",".","t","e","s","t","/","c","s","s","/","s",".","c","s","s">>

\* the strings of a list, sep between them
RECURSIVE Join(_, _)
Join(strs, sep) ==
    IF strs = << >> THEN << >>
    ELSE IF Len(strs) = 1 THEN strs[1]
    ELSE strs[1] \o sep \o Join(Tail(strs), sep)

\* one item of a src list: fn(ref) with the quote q around ref, then format(fmt)
\* with the quote fq around fmt when fmt is given
SrcItem(fn, q, ref, fq, fmt) == [fn |-> fn, q |-> q, ref |-> ref, fq |-> fq, fmt |-> fmt]

ItemText(item) ==
    item.fn \o << "(" >> \o item.q \o item.ref \o item.q \o << ")" >>
        \o (IF item.fmt = None THEN << >>
            ELSE <<" ","f","o","r","m","a","t","(">> \o item.fq \o item.fmt[1] \o item.fq \o << ")" >>)

\* the declarations of a block [family, fq, src, weight]
BlockBody(block) ==
    Join((IF block.family = None THEN << >>
          ELSE << s_font_family \o << ":" >> \o block.fq \o block.family[1] \o block.fq >>)
         \o (IF block.src = << >> THEN << >>
             ELSE << s_src \o << ":" >>
                       \o Join([k \in DOMAIN block.src |-> ItemText(block.src[k])], <<","," ">>) >>)
         \o (IF block.weight = None THEN << >>
             ELSE << s_font_weight \o << ":" >> \o block.weight[1] >>),
         << ";" >>)

BlockText(block) == s_font_face \o << "{" >> \o BlockBody(block) \o << "}" >>

BlobOf(bs, rest) == Join([k \in DOMAIN bs |-> BlockText(bs[k])] \o << rest >>, << " " >>)

s_url_fn == <<"u","r","l">>

s_local_fn == <<"l","o","c","a","l">>

q1 == << "'" >>

q2 == << "\"" >>

BlockPool ==
    { \* the block of the end-to-end example
      [family |-> Some(s_Test), fq |-> q1, weight |-> Some(s_700),
       src |-> << SrcItem(s_url_fn, q1, <<"t",".","w","o","f","f","2">>, q1, Some(s_woff2)) >>],
      \* a local() source before the url, the url host-relative
      [family |-> Some(<<"O","p","e","n"," ","S","a","n","s">>), fq |-> q2, weight |-> None,
       src |-> << SrcItem(s_local_fn, q1, <<"O","p","e","n"," ","S","a","n","s">>, << >>, None),
                  SrcItem(s_url_fn, << >>, <<"/","f","/","o","s",".","w","o","f","f">>, << >>, None) >>],
      \* two urls
      [family |-> Some(<<"T">>), fq |-> << >>, weight |-> None,
       src |-> << SrcItem(s_url_fn, << >>, <<"a",".","w","o","f","f">>, << >>, None),
                  SrcItem(s_url_fn, q2, <<"b",".","t","t","f">>, q1, Some(s_truetype)) >>],
      \* a data: url, which has a ";" in it
      [family |-> Some(<<"T">>), fq |-> << >>, weight |-> None,
       src |-> << SrcItem(s_url_fn, << >>, <<"d","a","t","a",":","f","o","n","t","/","w","o","f","f","2",";","b","a","s","e","6","4",",","A","A","A","A">>, q1,
                          Some(s_woff2)) >>],
      \* a url whose host opens a bracket it does not close
      [family |-> Some(<<"T">>), fq |-> << >>, weight |-> None,
       src |-> << SrcItem(s_url_fn, << >>, <<"/","/","[","x","/","a",".","w","o","f","f">>, << >>, None) >>],
      \* no font-family
      [family |-> None, fq |-> << >>, weight |-> Some(s_700),
       src |-> << SrcItem(s_url_fn, << >>, <<"a",".","t","t","f">>, << >>, None) >>],
      \* no src
      [family |-> Some(<<"T">>), fq |-> q1, weight |-> Some(s_700), src |-> << >>],
      \* a src without a url
      [family |-> Some(<<"T">>), fq |-> << >>, weight |-> None,
       src |-> << SrcItem(s_local_fn, << >>, <<"T">>, << >>, None) >>] }

TailPool == { << >>, <<"p","{","f","o","n","t","-","f","a","m","i","l","y",":","A","r","i","a","l",",","s","e","r","i","f","}">>, <<"@","i","m","p","o","r","t"," ","'","b",".","c","s","s","'",";">> }

InitParse ==
    /\ \E n \in 0..MaxBlocks : blocks \in [1..n -> BlockPool]
    /\ tail \in TailPool
    /\ parse_out = << >>
    /\ url \in {u_page, u_sheet}
    /\ site = << >>
    /\ include_system = TRUE
    /\ skip_external = FALSE
    /\ fetched_urls = {}
    /\ results = << >>
    /\ all_fonts = << >>
    /\ css_imports = << >>
    /\ j = 1
    /\ filtered = << >>
    /\ input = << >>
    /\ perm = << >>
    /\ out1 = << >>
    /\ out2 = << >>
    /\ outP = << >>
    /\ heap = << >>
    /\ fonts = << >>
    /\ font_map = << >>
    /\ i = 1
    /\ merged = << >>
    /\ pc = "parse"

\* CSSParser(base_url=url).parse_css_content(blob), cssutils parsing the blob
\* (structured) or raising
parse_blob ==
    /\ pc = "parse"
    /\ \E structured \in BOOLEAN :
          parse_out' = [structured |-> structured,
                        result |-> parse_css_content(BlobOf(blocks, tail), Some(url), None,
                                                     structured)]
    /\ css_imports' = css_imports \o parse_out'.result.imports
    /\ pc' = "parsed"
    /\ UNCHANGED << mergeVars, harnessVars, blocks, tail, url, site, include_system,
                    skip_external, fetched_urls, results, all_fonts, j, filtered >>

NextParse == parse_blob

SpecParse == InitParse /\ [][NextParse]_vars

(***************************************************************************)
(* Claims about the @font-face pass (SpecParse)                            *)
(***************************************************************************)
\* what a block declares
DeclaresFamily(block) == block.family # None

UrlItems(block) == {k \in DOMAIN block.src : block.src[k].fn = s_url_fn}

DeclaresUrl(block) == UrlItems(block) # {}

\* the first url(...) of the src of the block, resolved against the base
FirstUrlResolved(block, base) == urljoin(base, block.src[Min(UrlItems(block))].ref)

\* the entries of a font list that have the type 'web'
WebFonts(fs) == SelectSeq(fs, LAMBDA f : f.type = s_web)

\* the blocks without the block at index k
Without(bs, k) == [m \in 1..(Len(bs) - 1) |-> IF m < k THEN bs[m] ELSE bs[m + 1]]

\* the number of the fonts of a list that have the given source
C5_WithSource(out, source) == Cardinality({m \in DOMAIN out : out[m].source = Some(source)})

\* the number of the blocks that declare a family and whose first url(...) is source
C5_Declaring(bs, base, source) ==
    Cardinality({m \in DOMAIN bs :
                    /\ DeclaresFamily(bs[m])
                    /\ DeclaresUrl(bs[m])
                    /\ FirstUrlResolved(bs[m], base) = source})

C5_SourceCounted(source) ==
    C5_WithSource(WebFonts(parse_out.result.fonts), source) = C5_Declaring(blocks, url, source)

\* C5: for every blob, every @font-face block of it that declares a font-family and
\* has a url(...) in its src yields exactly one Font, of type 'web', whose source is
\* the first url(...) of the block resolved against the base URL: the returned list
\* has as many web fonts with that source as the blob has such blocks with that
\* first url. Stated for the parses in which cssutils parsed the style rules and no
\* url made urljoin raise.
C5_OneWebFontPerBlock ==
    (pc = "parsed" /\ parse_out.structured /\ ~parse_out.result.raised) =>
        \A b \in Range(blocks) :
            (DeclaresFamily(b) /\ DeclaresUrl(b)) => C5_SourceCounted(FirstUrlResolved(b, url))

\* the parse of the blob is the parse rest of the blob without a block
C6_ParsedAs(rest) ==
    /\ WebFonts(parse_out.result.fonts) = WebFonts(rest.fonts)
    /\ parse_out.result.imports = rest.imports
    /\ parse_out.result.raised = rest.raised
    /\ parse_out.structured => parse_out.result.fonts = rest.fonts

Allocate(h, new_fonts) == [heap |-> h \o new_fonts,
                           ids |-> [k \in DOMAIN new_fonts |-> Len(h) + k]]

\* results = self.scraper.fetch_page(url), and the early return on a failed fetch
\* ("if results.errors and not hasattr(results, 'css_content')")
TakePage(fetch) ==
    /\ results' = fetch.results
    /\ fetched_urls' = fetch.fetched_urls
    /\ pc' = IF fetch.results.errors # << >> /\ ~fetch.results.has_css_content
             THEN "done" ELSE "parse_css"

analyze_fetch_page ==
    /\ pc = "analyze"
    /\ TakePage(fetch_page(site, fetched_urls, url))
    /\ j' = 1
    /\ UNCHANGED << mergeVars, harnessVars, parseVars, url, site, include_system,
                    skip_external, all_fonts, css_imports, filtered >>

\* all_fonts.extend(...) with the objects new holds
TakeFonts(new) ==
    /\ heap' = new.heap
    /\ all_fonts' = all_fonts \o new.ids

\* what analyze_website keeps of one parse_css_content: the fonts, and the imports
\* the parser appended to its list
TakeParsed(parsed) ==
    /\ TakeFonts(Allocate(heap, parsed.fonts))
    /\ css_imports' = css_imports \o parsed.imports

\* results.css_sources[i] if i < len(results.css_sources) else None
SourceUrlAt(res, k) == IF k <= Len(res.css_sources) THEN Some(res.css_sources[k]) ELSE None

\* the body of "for i, css_content in enumerate(results.css_content)"
analyze_parse_css ==
    /\ pc = "parse_css"
    /\ results.has_css_content
    /\ j <= Len(results.css_content)
    /\ \E structured \in BOOLEAN :
          TakeParsed(parse_css_content(results.css_content[j], Some(url),
                                       SourceUrlAt(results, j), structured))
    /\ j' = j + 1
    /\ UNCHANGED << pc, fonts, font_map, i, merged, harnessVars, parseVars, url, site,
                    include_system, skip_external, fetched_urls, results, filtered >>

\* the block under "if html_content"
HtmlFonts(page, base_url) ==
    InlineFonts(extract_style_attributes(page))
        \o _analyze_web_font_services(detect_web_font_services(page, base_url))

\* what analyze_website does with the html _refetch_html_if_needed returned
TakeHtml(html) ==
    /\ fetched_urls' = html.fetched_urls
    /\ IF html.content = None
       THEN /\ pc' = "imports"
            /\ UNCHANGED << heap, all_fonts, results >>
       ELSE IF detect_web_font_services_raises(html.content[1])
       THEN /\ results' = add_error(results, <<"E","r","r","o","r"," ","d","u","r","i","n","g"," ","f","o","n","t"," ","a","n","a","l","y","s","i","s",":"," ","I","n","v","a","l","i","d"," ","I","P","v","6"," ","U","R","L">>)
            /\ pc' = "done"
            /\ UNCHANGED << heap, all_fonts >>
       ELSE /\ TakeFonts(Allocate(heap, HtmlFonts(html.content[1], url)))
            /\ pc' = "imports"
            /\ UNCHANGED results

\* html_content = self._refetch_html_if_needed(url) and the block under
\* "if html_content"; an exception of that block ends the call in the except branch
\* of analyze_website
analyze_refetch_html ==
    /\ pc = "parse_css"
    /\ ~(results.has_css_content /\ j <= Len(results.css_content))
    /\ TakeHtml(_fetch_html(site, fetched_urls, url))
    /\ j' = 1
    /\ UNCHANGED << fonts, font_map, i, merged, harnessVars, parseVars, url, site,
                    include_system, skip_external, css_imports, filtered >>

\* _process_css_imports runs and its loop has an element left at index k
MoreImports(imports, skip, k) == imports # << >> /\ ~skip /\ k <= Len(imports)

\* what the loop does with the css _fetch_css returned for import_url
TakeImport(import_url, got) ==
    /\ fetched_urls' = got.fetched_urls
    /\ IF got.content # None /\ got.content[1] # << >>
       THEN \E structured \in BOOLEAN :
               TakeParsed(parse_css_content(got.content[1], Some(url), Some(import_url),
                                            structured))
       ELSE UNCHANGED << heap, all_fonts, css_imports >>

\* the body of "for import_url in css_imports" of _process_css_imports; the list is
\* the parser's own, so what parse_css_content appends to it is visited too
analyze_process_import ==
    /\ pc = "imports"
    /\ MoreImports(css_imports, skip_external, j)
    /\ TakeImport(css_imports[j], _fetch_css(site, fetched_urls, css_imports[j]))
    /\ j' = j + 1
    /\ UNCHANGED << pc, fonts, font_map, i, merged, harnessVars, parseVars, url, site,
                    include_system, skip_external, results, filtered >>

\* merged_fonts = css_parser.merge_duplicate_fonts(all_fonts): the call
analyze_merge_call ==
    /\ pc = "imports"
    /\ ~MoreImports(css_imports, skip_external, j)
    /\ CallMerge(all_fonts)
    /\ pc' = "analyze_merge"
    /\ UNCHANGED << heap, merged, harnessVars, parseVars, detectorVars, filtered >>

\* merge_duplicate_fonts returns; then _filter_fonts, add_font for each font it
\* kept, and update_statistics
analyze_finish ==
    /\ pc = "analyze_merge"
    /\ ~MoreFonts(fonts, i)
    /\ merged' = MapValues(font_map)
    /\ filtered' = _filter_fonts(merged', heap, include_system)
    /\ results' = update_statistics(
                      [results EXCEPT !.fonts = AddFonts(@, filtered', heap)], heap)
    /\ pc' = "done"
    /\ UNCHANGED << heap, fonts, font_map, i, harnessVars, parseVars, url, site,
                    include_system, skip_external, fetched_urls, all_fonts, css_imports, j >>

(***************************************************************************)
(* The pages and sites analyze_website is run on                           *)
(***************************************************************************)
MaxStyles == 2

u_a_css == <<"h","t","t","p","s",":","/","/","x",".","t","e","s","t","/","a",".","c","s","s">>

u_b_css == <<"h","t","t","p","s",":","/","/","x",".","t","e","s","t","/","b",".","c","s","s">>

u_google == <<"h","t","t","p","s",":","/","/","f","o","n","t","s",".","g","o","o","g","l","e","a","p","i","s",".","c","o","m","/","c","s","s","?","f","a","m","i","l","y","=","O","p","e","n","+","S","a","n","s">>

u_typekit == <<"h","t","t","p","s",":","/","/","u","s","e",".","t","y","p","e","k","i","t",".","n","e","t","/","a","b","c","1","d","e","f",".","j","s">>

css_e2e ==
    <<"@","f","o","n","t","-","f","a","c","e","{","f","o","n","t","-","f","a","m","i","l","y",":","'","T","e","s","t","'",";","s","r","c",":","u","r","l","(","'","t",".","w","o","f","f","2","'",")"," ","f","o","r","m","a","t","(","'","w","o","f","f","2","'",")",";","f","o","n","t","-","w","e","i","g","h","t",":","7","0","0",";","}"," ","b","o","d","y","{","f","o","n","t","-","f","a","m","i","l","y",":","'","T","e","s","t","'",",","A","r","i","a","l",",","s","a","n","s","-","s","e","r","i","f",";","}">>

css_sys == <<"p","{","f","o","n","t","-","f","a","m","i","l","y",":","A","r","i","a","l",",","s","e","r","i","f","}">>

css_imp == <<"@","i","m","p","o","r","t"," ","u","r","l","(","b",".","c","s","s",")",";"," ","h","1","{","f","o","n","t",":","1","2","p","x"," ","G","e","o","r","g","i","a","}">>

css_a == <<"@","f","o","n","t","-","f","a","c","e","{","f","o","n","t","-","f","a","m","i","l","y",":","L","a","t","o",";","s","r","c",":","u","r","l","(","l",".","w","o","f","f",")","}"," ","@","i","m","p","o","r","t"," ","'","b",".","c","s","s","'",";">>

css_b == <<"e","m","{","f","o","n","t","-","f","a","m","i","l","y",":","M","e","n","l","o",",","m","o","n","o","s","p","a","c","e","}">>

attr_lato == <<"f","o","n","t","-","f","a","m","i","l","y",":","'","L","a","t","o","'",",","s","e","r","i","f",";","f","o","n","t","-","w","e","i","g","h","t",":","3","0","0">>

attr_color == <<"c","o","l","o","r",":","r","e","d">>

StylePool == {css_e2e, css_sys, css_imp}

\* no <link>; a style sheet; a style sheet, a Google Fonts link and a Typekit script
LinkPool ==
    { [links |-> << >>, scripts |-> << >>],
      [links |-> << [stylesheet |-> TRUE, href |-> <<"a",".","c","s","s">>] >>, scripts |-> << >>],
      [links |-> << [stylesheet |-> TRUE, href |-> <<"a",".","c","s","s">>],
                    [stylesheet |-> TRUE, href |-> u_google] >>,
       scripts |-> << u_typekit >>] }

AttrPool == { << >>, << attr_color, attr_lato >> }

PagePool ==
    { [styles |-> st, links |-> l.links, scripts |-> l.scripts, attrs |-> a] :
        st \in UNION {[1..n -> StylePool] : n \in 0..MaxStyles},
        l \in LinkPool, a \in AttrPool }

\* the page is served or not; a.css is served or not; b.css is served without a
\* text/css content type; nothing else is served
SitePool ==
    { (u_page :> p) @@ (u_a_css :> a)
        @@ (u_b_css :> [kind |-> "css", text |-> css_b, css_type |-> FALSE]) :
        p \in {[kind |-> "html", page |-> page] : page \in PagePool},
        a \in {[kind |-> "css", text |-> css_a, css_type |-> TRUE], [kind |-> "fail"]} }
    \cup { (u_page :> [kind |-> "fail"]) }

Init ==
    /\ NoParse
    /\ site \in SitePool
    /\ url \in {u_page, <<"x",".","t","e","s","t">>}
    /\ url = u_page \/ site = (u_page :> [kind |-> "fail"])
    /\ include_system \in BOOLEAN
    /\ skip_external \in BOOLEAN
    /\ fetched_urls = {}
    /\ results = ScrapeResults(url)
    /\ all_fonts = << >>
    /\ css_imports = << >>
    /\ j = 1
    /\ filtered = << >>
    /\ input = << >>
    /\ perm = << >>
    /\ out1 = << >>
    /\ out2 = << >>
    /\ outP = << >>
    /\ heap = << >>
    /\ fonts = << >>
    /\ font_map = << >>
    /\ i = 1
    /\ merged = << >>
    /\ pc = "analyze"

Next ==
    \/ analyze_fetch_page
    \/ analyze_parse_css
    \/ analyze_refetch_html
    \/ analyze_process_import
    \/ analyze_merge_call
    \/ merge_iter
    \/ analyze_finish

Spec == Init /\ [][Next]_vars

(***************************************************************************)
(* _filter_fonts on lists of fonts of every kind                           *)
(***************************************************************************)
FilterPool ==
    { Font(<<"s","e","r","i","f">>, s_custom),
      Font(<<"S","a","n","s","-","S","e","r","i","f">>, s_custom),
      Font(<<"s","y","s","t","e","m","-","u","i">>, s_system),
      [Font(<<" ">>, s_web) EXCEPT !.source = Some(u_google)],
      Font(<< >>, s_custom),
      Font(s_Arial, s_system),
      Font(s_Test, s_custom) }

InitFilter ==
    /\ NoParse
    /\ NoAnalysis
    /\ include_system \in BOOLEAN
    /\ filtered = << >>
    /\ \E n \in 0..MaxFonts : input \in [1..n -> FilterPool]
    /\ perm = << >>
    /\ out1 = << >>
    /\ out2 = << >>
    /\ outP = << >>
    /\ heap = input
    /\ fonts = [k \in DOMAIN input |-> k]
    /\ font_map = << >>
    /\ i = 1
    /\ merged = << >>
    /\ pc = "filter"

\* filtered_fonts = self._filter_fonts(fonts)
filter_call ==
    /\ pc = "filter"
    /\ filtered' = _filter_fonts(fonts, heap, include_system)
    /\ pc' = "filtered"
    /\ UNCHANGED << mergeVars, harnessVars, parseVars, detectorVars >>

NextFilter == filter_call

SpecFilter == InitFilter /\ [][NextFilter]_vars

(***************************************************************************)
(* Claims about the filter pass and analyze_website                        *)
(***************************************************************************)
C7_GenericNames ==
    { <<"s","e","r","i","f">>, <<"s","a","n","s","-","s","e","r","i","f">>, <<"m","o","n","o","s","p","a","c","e">>, <<"c","u","r","s","i","v","e">>, <<"f","a","n","t","a","s","y">>,
      <<"s","y","s","t","e","m","-","u","i">>, <<"u","i","-","s","e","r","i","f">>, <<"u","i","-","s","a","n","s","-","s","e","r","i","f">>, <<"u","i","-","m","o","n","o","s","p","a","c","e">> }

\* C7: for every list of fonts and both values of include_system, the list
\* _filter_fonts returns has no font whose lower-cased name is one of the nine generic
\* family names, and no font whose name is empty or whitespace only.
C7_NoGenericOrNameless ==
    pc = "filtered" =>
        \A k \in DOMAIN filtered :
            /\ Lower(heap[filtered[k]].name) \notin C7_GenericNames
            /\ Strip(heap[filtered[k]].name) # << >>

\* the filter was given a generic name in another case than lower case, a blank name
\* and a font it kept
C7_Witness ==
    /\ pc = "filtered"
    /\ filtered # << >>
    /\ \E k \in DOMAIN input : /\ input[k].name \notin C7_GenericNames
                               /\ Lower(input[k].name) \in C7_GenericNames
    /\ \E k \in DOMAIN input : input[k].name # << >> /\ Strip(input[k].name) = << >>

\* the name of the font is neither blank nor generic
C8_Named(font) == Strip(font.name) # << >> /\ Lower(font.name) \notin C7_GenericNames

\* C8: when include_system is false, no font of type 'system' is in the font list of
\* the result analyze_website returns; when it is true, every named, non-generic
\* font merge_duplicate_fonts returned is in that list, whatever its type.
C8_SystemFontsByFlag ==
    pc = "done" =>
        /\ ~include_system =>
              \A k \in DOMAIN results.fonts : heap[results.fonts[k]].type # s_system
        /\ include_system =>
              \A m \in DOMAIN merged :
                  C8_Named(heap[merged[m]]) => merged[m] \in Range(results.fonts)

\* analyze_website returned, without system fonts, a result with a font in it, from
\* a merged list that had a named system font
C8_Witness ==
    /\ pc = "done"
    /\ ~include_system
    /\ results.fonts # << >>
    /\ \E m \in DOMAIN merged : /\ heap[merged[m]].type = s_system
                                /\ C8_Named(heap[merged[m]])

\* the page analyze_website fetched, when it fetched one
C9_PageFetched == results # << >> /\ results.has_css_content

C9_Page == site[url].page

\* every font of the list derived that the filter keeps is in the fonts of the result
C9_AllIn(derived) ==
    \A d \in Range(derived) :
        (C8_Named(d) /\ (include_system \/ d.type # s_system)) =>
            \E k \in DOMAIN results.fonts :
                /\ KeyOf(heap[results.fonts[k]]) = KeyOf(d)
                /\ Range(d.selectors) \subseteq Range(heap[results.fonts[k]].selectors)

\* C9: when the analysed page has a style attribute that declares a font-family, or
\* a link or script of a web-font service, every font derived from them that the
\* filter keeps is in the font list of the returned result: a font of the same
\* name, type and source, and with the selector '[inline style]' when it comes from
\* a style attribute.
C9_HtmlFontsInResult ==
    (pc = "done" /\ C9_PageFetched /\ ~detect_web_font_services_raises(C9_Page)) =>
        C9_AllIn(HtmlFonts(C9_Page, url))

\* the fields of a font the end-to-end example names
C10_Fields(f) == [name |-> f.name, type |-> f.type, source |-> f.source]

\* C10: the page whose only CSS is the end-to-end example, analysed with
\* include_system, yields exactly three fonts: Test of type web with the source
\* https://x.test/t.woff2, the format woff2, the weights ["700"] and the styles
\* ["normal"]; Test of type custom without a source; and Arial of type system.
C10_EndToEnd ==
    (/\ pc = "done"
     /\ C9_PageFetched
     /\ results.css_content = << css_e2e >>
     /\ include_system) =>
        /\ Len(results.fonts) = 3
        /\ {C10_Fields(heap[results.fonts[k]]) : k \in DOMAIN results.fonts}
              = { [name |-> s_Test, type |-> s_web, source |-> Some(u_test_woff2)],
                  [name |-> s_Test, type |-> s_custom, source |-> None],
                  [name |-> s_Arial, type |-> s_system, source |-> None] }
        /\ \A k \in DOMAIN results.fonts :
              heap[results.fonts[k]].type = s_web =>
                  /\ heap[results.fonts[k]].format = Some(s_woff2)
                  /\ heap[results.fonts[k]].weights = << s_700 >>
                  /\ heap[results.fonts[k]].styles = << s_normal >>

(***************************************************************************)
(* The pure functions on strings, each applied to every string of a pool    *)
(***************************************************************************)
MaxChars == 4

\* every string of at most MaxChars characters of the alphabet
StringsOver(alphabet) == UNION { [1..n -> alphabet] : n \in 0..MaxChars }

\* nothing is merged, parsed, analysed or filtered
Idle ==
    /\ NoParse
    /\ NoAnalysis
    /\ include_system = FALSE
    /\ filtered = << >>
    /\ perm = << >>
    /\ out2 = << >>
    /\ outP = << >>
    /\ heap = << >>
    /\ fonts = << >>
    /\ font_map = << >>
    /\ i = 1
    /\ merged = << >>

(***************************************************************************)
(* _parse_font_family_value on font-family values                          *)
(***************************************************************************)
s_times_value == <<"'","T","i","m","e","s"," ","N","e","w"," ","R","o","m","a","n","'",","," ","T","i","m","e","s",","," ","s","e","r","i","f">>

s_commas_value == <<"\"","F","o","n","t",","," ","W","i","t","h",","," ","C","o","m","m","a","s","\"",","," ","A","r","i","a","l">>

FamilyValues == StringsOver({"a", ",", "'", "\"", " "}) \cup {s_times_value, s_commas_value}

InitFamily ==
    /\ Idle
    /\ input \in FamilyValues
    /\ out1 = << >>
    /\ pc = "family_value"

\* font_names = self._parse_font_family_value(value)
family_value_call ==
    /\ pc = "family_value"
    /\ out1' = _parse_font_family_value(input)
    /\ pc' = "family_names"
    /\ UNCHANGED << mergeVars, input, perm, out2, outP, parseVars, detectorVars, filtered >>

NextFamily == family_value_call

SpecFamily == InitFamily /\ [][NextFamily]_vars

(***************************************************************************)
(* Claims about _parse_font_family_value                                   *)
(***************************************************************************)
\* the quote character that is open once `before` was open and c is read ("" for none)
C11_Read(before, c) ==
    IF before = "" THEN (IF IsQuote(c) THEN c ELSE "")
    ELSE IF c = before THEN "" ELSE before

\* the quote character that is open after the first k characters of the value
RECURSIVE C11_Open(_, _)
C11_Open(value, k) ==
    IF k = 0 THEN "" ELSE C11_Read(C11_Open(value, k - 1), value[k])

\* the commas outside quotes
C11_Separators(value) ==
    {k \in 1..Len(value) : value[k] = "," /\ C11_Open(value, k - 1) = ""}

\* the characters between the (m-1)-th and the m-th separator
C11_Between(value, idx) ==
    IF idx = {} THEN << >> ELSE SubSeq(value, Min(idx), Max(idx))

C11_Segment(value, seps, m) ==
    C11_Between(value, {k \in (1..Len(value)) \ seps :
                            Cardinality({s \in seps : s < k}) = m - 1})

C11_Segments(value, seps) ==
    [m \in 1..(Cardinality(seps) + 1) |-> C11_Segment(value, seps, m)]

C11_NotBlank(s) == Strip(s) # << >>

C11_NamesOf(segments) ==
    [m \in DOMAIN segments |-> normalize_font_name(Strip(segments[m]))]

C11_Names(value) ==
    C11_NamesOf(SelectSeq(C11_Segments(value, C11_Separators(value)), C11_NotBlank))

\* C11: for every font-family value, the names _parse_font_family_value returns are
\* the normalized non-blank segments of the value cut at the commas outside quotes
\* only: a comma between an opening quote and the next occurrence of the same quote
\* character never splits.  "'Times New Roman', Times, serif" yields exactly
\* ["Times New Roman", "Times", "serif"], and '"Font, With, Commas", Arial' yields
\* exactly ["Font, With, Commas", "Arial"].
C11_CommaSplitsOutsideQuotes ==
    pc = "family_names" =>
        /\ out1 = C11_Names(input)
        /\ input = s_times_value =>
              out1 = << <<"T","i","m","e","s"," ","N","e","w"," ","R","o","m","a","n">>,
                        <<"T","i","m","e","s">>, <<"s","e","r","i","f">> >>
        /\ input = s_commas_value =>
              out1 = << <<"F","o","n","t",","," ","W","i","t","h",","," ","C","o","m","m","a","s">>,
                        <<"A","r","i","a","l">> >>

\* a value with commas inside quotes and one outside was split at the outer one only
C11_Witness ==
    /\ pc = "family_names"
    /\ input = s_commas_value
    /\ Len(out1) = 2
    /\ Cardinality({k \in DOMAIN input : input[k] = ","}) = 3

\* C12: for every font-family value, the list _parse_font_family_value returns
\* contains no empty string: every entry is a non-empty family name.
C12_NoEmptyName ==
    pc = "family_names" => \A k \in DOMAIN out1 : out1[k] # << >>

(***************************************************************************)
(* normalize_font_name on raw names                                        *)
(***************************************************************************)
s_roboto_raw == <<" "," ","\"","R","o","b","o","t","o","\""," "," ">>

s_Roboto == <<"R","o","b","o","t","o">>

RawNames == StringsOver({"a", " ", "\t", "\"", "'"}) \cup {s_roboto_raw}

InitNormalize ==
    /\ Idle
    /\ input \in RawNames
    /\ out1 = << >>
    /\ pc = "normalize"

\* normalize_font_name(font_name)
normalize_call ==
    /\ pc = "normalize"
    /\ out1' = normalize_font_name(input)
    /\ pc' = "normalized"
    /\ UNCHANGED << mergeVars, input, perm, out2, outP, parseVars, detectorVars, filtered >>

NextNormalize == normalize_call

SpecNormalize == InitNormalize /\ [][NextNormalize]_vars

(***************************************************************************)
(* Claims about normalize_font_name                                        *)
(***************************************************************************)
\* raw without its leading and trailing whitespace
C13_Inner(raw, a, b) == IF a > b THEN << >> ELSE SubSeq(raw, a, b)

C13_Trimmed(raw) ==
    IF \A k \in DOMAIN raw : IsSpace(raw[k]) THEN << >>
    ELSE C13_Inner(raw,
                   CHOOSE a \in DOMAIN raw :
                       ~IsSpace(raw[a]) /\ \A k \in 1..(a - 1) : IsSpace(raw[k]),
                   CHOOSE b \in DOMAIN raw :
                       ~IsSpace(raw[b]) /\ \A k \in (b + 1)..Len(raw) : IsSpace(raw[k]))

\* t without one quote character at its start and one at its end, when present
C13_DropLast(t) ==
    IF t # << >> /\ t[Len(t)] \in {"\"", "'"} THEN SubSeq(t, 1, Len(t) - 1) ELSE t

C13_Unquoted(t) ==
    C13_DropLast(IF t # << >> /\ t[1] \in {"\"", "'"} THEN SubSeq(t, 2, Len(t)) ELSE t)

\* s with every run of whitespace replaced by one space
RECURSIVE C13_Collapsed(_)
C13_Collapsed(s) ==
    IF s = << >> THEN << >>
    ELSE IF ~IsSpace(s[1]) THEN << s[1] >> \o C13_Collapsed(Tail(s))
    ELSE IF Len(s) > 1 /\ IsSpace(s[2]) THEN C13_Collapsed(Tail(s))
    ELSE << " " >> \o C13_Collapsed(Tail(s))

MaxParts == 2

UrlParts ==
    { <<"f","o","n","t","s",".","g","o","o","g","l","e","a","p","i","s",".","c","o","m">>,
      <<"F","O","N","T","S",".","G","S","T","A","T","I","C",".","C","O","M">>,
      <<"u","s","e",".","t","y","p","e","k","i","t",".","n","e","t">>,
      <<"U","s","e",".","T","y","p","e","k","i","t",".","C","o","m">>,
      <<"f","o","n","t","a","w","e","s","o","m","e">>,
      <<"c","d","n","j","s",".","c","l","o","u","d","f","l","a","r","e",".","c","o","m">>,
      <<"f","o","n","t">>,
      <<"f","o","n","t","s",".","c","o","m">>,
      <<"w","e","b","t","y","p","e",".","c","o","m">>,
      <<"T","y","p","o","g","r","a","p","h","y",".","c","o","m">>,
      <<"x","/">> }

u_roboto_css == <<"h","t","t","p","s",":","/","/","f","o","n","t","s",".","g","o","o","g","l","e","a","p","i","s",".","c","o","m","/","c","s","s","2","?","f","a","m","i","l","y","=","R","o","b","o","t","o">>

u_example_font == <<"h","t","t","p","s",":","/","/","e","x","a","m","p","l","e",".","c","o","m","/","f","o","n","t",".","w","o","f","f","2">>

\* None, the empty url, the urls of the spec and every url of at most MaxParts parts
ProviderUrls ==
    {None, Some(u_roboto_css), Some(u_example_font)}
        \cup { Some(Join(parts, << >>)) :
                 parts \in UNION { [1..n -> UrlParts] : n \in 0..MaxParts } }

InitProvider ==
    /\ Idle
    /\ input \in ProviderUrls
    /\ out1 = << >>
    /\ pc = "provider"

\* provider = detect_font_provider(url)
provider_call ==
    /\ pc = "provider"
    /\ out1' = detect_font_provider(input)
    /\ pc' = "provider_known"
    /\ UNCHANGED << mergeVars, input, perm, out2, outP, parseVars, detectorVars, filtered >>

NextProvider == provider_call

SpecProvider == InitProvider /\ [][NextProvider]_vars

(***************************************************************************)
(* Claims about detect_font_provider                                       *)
(***************************************************************************)
\* the patterns in their fixed order: a pattern occurs in a url when all the
\* substrings of one of its alternatives occur in it
C14_Patterns ==
    << [provider |-> s_Google_Fonts,
        any |-> { {<<"f","o","n","t","s",".","g","o","o","g","l","e","a","p","i","s",".","c","o","m">>},
                  {<<"f","o","n","t","s",".","g","s","t","a","t","i","c",".","c","o","m">>} }],
       [provider |-> s_Adobe_Fonts,
        any |-> { {<<"u","s","e",".","t","y","p","e","k","i","t",".","n","e","t">>},
                  {<<"u","s","e",".","t","y","p","e","k","i","t",".","c","o","m">>} }],
       [provider |-> s_Font_Awesome,
        any |-> { {<<"f","o","n","t","a","w","e","s","o","m","e">>} }],
       [provider |-> s_CDNJS,
        any |-> { {<<"c","d","n","j","s",".","c","l","o","u","d","f","l","a","r","e",".","c","o","m">>,
                   <<"f","o","n","t">>} }],
       [provider |-> s_Commercial,
        any |-> { {<<"f","o","n","t","s",".","c","o","m">>},
                  {<<"w","e","b","t","y","p","e",".","c","o","m">>},
                  {<<"t","y","p","o","g","r","a","p","h","y",".","c","o","m">>} }] >>

\* lit occurs in u, letters compared without case
C14_Occurs(lit, u) ==
    \E at \in 0..(Len(u) - Len(lit)) :
        \A k \in DOMAIN lit : LowerChar(u[at + k]) = LowerChar(lit[k])

C14_Matching(u) ==
    {n \in DOMAIN C14_Patterns :
        \E alt \in C14_Patterns[n].any : \A lit \in alt : C14_Occurs(lit, u)}

C14_Provider(u) ==
    IF C14_Matching(u) = {} THEN s_Custom ELSE C14_Patterns[Min(C14_Matching(u))].provider

\* C14: detect_font_provider(url) returns None for an empty or absent URL, otherwise
\* the provider of the first pattern, in the fixed order Google Fonts, Adobe Fonts,
\* Font Awesome, CDNJS, Commercial Web Fonts, that occurs case-insensitively as a
\* substring of the URL, and 'Custom' when no pattern occurs.
C14_FirstPatternWins ==
    pc = "provider_known" =>
        IF input = None \/ input[1] = << >> THEN out1 = None
        ELSE out1 = Some(C14_Provider(input[1]))

\* a url in which the patterns of two providers occur, in upper case, got the earlier
\* provider
C14_Witness ==
    /\ pc = "provider_known"
    /\ input # None
    /\ input[1] # << >>
    /\ Cardinality(C14_Matching(input[1])) >= 2
    /\ \E k \in DOMAIN input[1] : input[1][k] # LowerChar(input[1][k])
    /\ out1 = Some(s_Google_Fonts)

(***************************************************************************)
(* main.py: main filters the fonts of the result by type                   *)
(***************************************************************************)
\* the sites whose page has at most one <style>
MainSites ==
    {s \in SitePool : s[u_page].kind = "html" => Len(s[u_page].page.styles) <= 1}

InitMain == Init /\ site \in MainSites

\* [font for font in results.fonts if font.type == filter.lower()]
FontsOfType(ids, type, h) ==
    LET is_type(k) == h[ids[k]].type = type
    IN  Keep(ids, is_type)

\* "if filter:" of main, reached when main did not exit on "not results.fonts and
\* results.errors": the fonts of one type are kept and update_statistics is called
main_filter ==
    /\ pc = "done"
    /\ ~(results.fonts = << >> /\ results.errors # << >>)
    /\ \E filter \in {s_web, s_system, s_custom, <<"W","e","b">>} :
          results' = update_statistics(
                         [results EXCEPT !.fonts = FontsOfType(@, Lower(filter), heap)],
                         heap)
    /\ pc' = "main_filtered"
    /\ UNCHANGED << mergeVars, harnessVars, parseVars, url, site, include_system,
                    skip_external, fetched_urls, all_fonts, css_imports, j, filtered >>

NextMain == Next \/ main_filter

SpecMain == InitMain /\ [][NextMain]_vars

(***************************************************************************)
(* Claims about the statistics                                             *)
(***************************************************************************)
\* a count of the statistics as output_formatter and main read it: a key the mapping
\* does not hold reads as 0
C15_Stat(res, key) == IF key \in DOMAIN res.statistics THEN res.statistics[key] ELSE 0

C15_OfType(res, type) == {k \in DOMAIN res.fonts : heap[res.fonts[k]].type = type}

\* C15: after analyze_website returns, and again after main filters the list by type
\* and calls update_statistics, the statistics of the result are those of its current
\* font list: total_fonts is the number of fonts in the list, and web_fonts,
\* system_fonts and custom_fonts are the numbers of its fonts of each type.  (A result
\* that analyze_website returns without fonts on a failure has an empty mapping, whose
\* counts read as 0.)
C15_StatisticsMatchFonts ==
    pc \in {"done", "main_filtered"} =>
        /\ C15_Stat(results, "total_fonts") = Len(results.fonts)
        /\ C15_Stat(results, "web_fonts") = Cardinality(C15_OfType(results, s_web))
        /\ C15_Stat(results, "system_fonts") = Cardinality(C15_OfType(results, s_system))
        /\ C15_Stat(results, "custom_fonts") = Cardinality(C15_OfType(results, s_custom))
        /\ results.fonts # << >> => "total_fonts" \in DOMAIN results.statistics

\* main's filter dropped fonts of the analysis and kept some, and the counts are
\* those of the fonts kept
C15_Witness ==
    /\ pc = "main_filtered"
    /\ results.fonts # << >>
    /\ Len(results.fonts) < Len(filtered)
    /\ results.statistics["total_fonts"] = Len(results.fonts)

(***************************************************************************)
(* ScrapeResults.add_font called with each font of a list                  *)
(***************************************************************************)
InitAdd ==
    /\ NoParse
    /\ url = u_page
    /\ site = << >>
    /\ skip_external = FALSE
    /\ fetched_urls = {}
    /\ results = ScrapeResults(u_page)
    /\ all_fonts = << >>
    /\ css_imports = << >>
    /\ j = 1
    /\ include_system = FALSE
    /\ filtered = << >>
    /\ \E n \in 0..MaxFonts : input \in [1..n -> FontPool]
    /\ perm = << >>
    /\ out1 = << >>
    /\ out2 = << >>
    /\ outP = << >>
    /\ heap = input
    /\ fonts = [k \in DOMAIN input |-> k]
    /\ font_map = << >>
    /\ i = 1
    /\ merged = << >>
    /\ pc = "add_font"

\* results.add_font(font) for the next font of the list
add_font_call ==
    /\ pc = "add_font"
    /\ i <= Len(fonts)
    /\ results' = [results EXCEPT !.fonts = AddFonts(@, << fonts[i] >>, heap)]
    /\ i' = i + 1
    /\ UNCHANGED << pc, heap, fonts, font_map, merged, harnessVars, parseVars, url, site,
                    include_system, skip_external, fetched_urls, all_fonts, css_imports,
                    j, filtered >>

NextAdd == add_font_call

SpecAdd == InitAdd /\ [][NextAdd]_vars

(***************************************************************************)
(* Claims about add_font                                                   *)
(***************************************************************************)
\* the fonts add_font was called with so far whose key no earlier one has
C16_FirstOfKey ==
    {k \in 1..(i - 1) : \A e \in 1..(k - 1) : KeyOf(heap[fonts[e]]) # KeyOf(heap[fonts[k]])}

\* C16: after any sequence of add_font calls on a ScrapeResults, its font list holds
\* no two entries with the same identity key (name, type, source), and the entries
\* are in the order in which their keys were first added.
C16_UniqueByKey ==
    pc = "add_font" =>
        /\ \A a, b \in DOMAIN results.fonts :
              a # b => KeyOf(heap[results.fonts[a]]) # KeyOf(heap[results.fonts[b]])
        /\ Len(results.fonts) = Cardinality(C16_FirstOfKey)
        /\ \A a \in DOMAIN results.fonts :
              /\ results.fonts[a] \in C16_FirstOfKey
              /\ \A b \in DOMAIN results.fonts : a < b => results.fonts[a] < results.fonts[b]

(***************************************************************************)
(* Claims about the failures of the fetches                                *)
(***************************************************************************)
\* the site does not serve u
C17_Fails(u) == u \notin DOMAIN site \/ site[u].kind = "fail"

C17_Reported(message) == message \in Range(results.errors)

\* some font of the result has the key of the font d
C17_InResult(d) == \E k \in DOMAIN results.fonts : KeyOf(heap[results.fonts[k]]) = KeyOf(d)

\* the font d passes the filter of the analysis
C17_Kept(d) ==
    /\ Strip(d.name) # << >>
    /\ Lower(d.name) \notin C7_GenericNames
    /\ include_system \/ d.type # s_system

\* the web fonts of the @font-face blocks of the k-th content fetch_page fetched
C17_WebFontsOf(parsed) == {d \in Range(parsed.fonts) : d.type = s_web}

C17_WebFontsAt(k) ==
    C17_WebFontsOf(parse_css_content(results.css_content[k], Some(url),
                                     SourceUrlAt(results, k), TRUE))

C18_Declared(properties, name, d) ==
    IF name \notin DOMAIN properties \/ properties[name] = s_normal THEN d
    ELSE properties[name]

\* C18: a Font built from an @font-face block has weights ["400"] when the block has
\* no font-weight or font-weight 'normal', and otherwise the single declared weight;
\* it has styles ["normal"] when the block has no font-style or font-style 'normal',
\* and otherwise the single declared style.
C18_WeightAndStyleDefaults ==
    pc = "parsed" =>
        \A f \in Range(WebFonts(parse_out.result.fonts)) :
            /\ f.weights = << C18_Declared(f.font_face_data, s_font_weight, s_400) >>
            /\ f.styles = << C18_Declared(f.font_face_data, s_font_style, s_normal) >>

(***************************************************************************)
(* Claims about a block that fails to parse                                *)
(***************************************************************************)
\* everything the parse rest extracted is what the parse of the blob extracted
C19_ParsedAs(rest) ==
    /\ WebFonts(parse_out.result.fonts) = WebFonts(rest.fonts)
    /\ parse_out.result.imports = rest.imports
    /\ parse_out.structured => parse_out.result.fonts = rest.fonts

\* C19: parsing one CSS blob never aborts on one bad rule: when a single @font-face
\* block fails to parse (including when resolving its URL raises), only that block
\* is skipped; the Fonts of the other @font-face blocks, the font-family and font
\* declarations of the style rules and the @import URLs of the same blob are all
\* extracted, as they are from the blob without the block.
C19_BadBlockSkipped ==
    pc = "parsed" =>
        \A k \in DOMAIN blocks :
            _parse_single_font_face_raises(BlockBody(blocks[k]), Some(url), None) =>
                C19_ParsedAs(parse_css_content(BlobOf(Without(blocks, k), tail), Some(url),
                                               None, parse_out.structured))

(***************************************************************************)
(* _extract_css_properties on declaration blocks                           *)
(***************************************************************************)
\* a name declared twice, in two cases, a segment without ':' between the two
\* declarations, and a value with a ':' in it
s_twice_block == <<"a",":","1",";","x",";","A"," ",":","b",":","c">>

s_weights_block == <<"f","o","n","t","-","w","e","i","g","h","t",":","7","0","0",";","f","o","n","t","-","w","e","i","g","h","t",":"," ",";">>

DeclarationBlocks ==
    StringsOver({"a", "A", ":", ";", " ", "'"}) \cup {s_twice_block, s_weights_block}

InitProperties ==
    /\ Idle
    /\ input \in DeclarationBlocks
    /\ out1 = << >>
    /\ pc = "properties"

\* properties = self._extract_css_properties(css_block)
properties_call ==
    /\ pc = "properties"
    /\ out1' = _extract_css_properties(input)
    /\ pc' = "properties_known"
    /\ UNCHANGED << mergeVars, input, perm, out2, outP, parseVars, detectorVars, filtered >>

NextProperties == properties_call

SpecProperties == InitProperties /\ [][NextProperties]_vars

(***************************************************************************)
(* Claims about _extract_css_properties                                    *)
(***************************************************************************)
\* the segments of the block between its ';'
C20_Segments(block) == Split(block, ";")

C20_HasColon(segment) == \E k \in DOMAIN segment : segment[k] = ":"

C20_Colon(segment) == Min({k \in DOMAIN segment : segment[k] = ":"})

\* the lower-cased, trimmed name of a segment: what is before its first ':'
C20_Name(segment) == Lower(Strip(SubSeq(segment, 1, C20_Colon(segment) - 1)))

\* the cleaned value of a segment: what is after its first ':'
C20_Value(segment) ==
    clean_css_value(SubSeq(segment, C20_Colon(segment) + 1, Len(segment)))

\* the mapping of each name of the declarations at the indices ds to the value of
\* the last of them that has the name
C20_LastOf(segments, ds) ==
    [name \in {C20_Name(segments[k]) : k \in ds} |->
        C20_Value(segments[Max({k \in ds : C20_Name(segments[k]) = name})])]

C20_WithColon(segments) == {k \in DOMAIN segments : C20_HasColon(segments[k])}

\* the segments with a ':' whose name and cleaned value are both non-empty
C20_Complete(segments) ==
    {k \in C20_WithColon(segments) :
        C20_Name(segments[k]) # << >> /\ C20_Value(segments[k]) # << >>}

\* C20 as stated: _extract_css_properties maps each lower-cased, trimmed property
\* name of a declaration block to the cleaned value of its last declaration in the
\* block, splits each segment at its first ':' only, and skips the segments without
\* ':'.
C20_LastDeclarationWins ==
    pc = "properties_known" =>
        out1 = C20_LastOf(C20_Segments(input), C20_WithColon(C20_Segments(input)))

\* C20, amended: _extract_css_properties maps each non-empty lower-cased, trimmed
\* property name of a declaration block to the cleaned value of the last declaration
\* of that name in the block whose cleaned value is non-empty (a later such
\* declaration overwrites an earlier one), splits each segment at its first ':'
\* only, and skips the segments without ':' and those whose name or cleaned value is
\* empty, without raising.
C20_LastCompleteDeclarationWins ==
    pc = "properties_known" =>
        out1 = C20_LastOf(C20_Segments(input), C20_Complete(C20_Segments(input)))

\* a block that declares a name twice, with a segment without ':' and a value with
\* a ':' in it, gave the name the later value
C20_Witness ==
    /\ pc = "properties_known"
    /\ input = s_twice_block
    /\ out1 = (<<"a">> :> <<"b",":","c">>)

(***************************************************************************)
(* parse_font_face_src on src values made of fragments                     *)
(***************************************************************************)
MaxItems == 2

\* fragments fn(ref) [format(fmt)]: urls of every font extension, with a query
\* string, in upper case, with a comma inside the parentheses, and local() fragments
SrcItemPool ==
    { SrcItem(s_url_fn, q1, <<"t",".","w","o","f","f","2">>, q1, Some(s_woff2)),
      SrcItem(s_url_fn, << >>, <<"/","f","/","o","s",".","w","o","f","f">>, << >>, None),
      SrcItem(s_url_fn, q2, <<"a",".","t","t","f">>, << >>, None),
      SrcItem(s_url_fn, << >>, <<"b",".","o","t","f">>, << >>, None),
      SrcItem(s_url_fn, q1, <<"c",".","e","o","t">>, << >>, None),
      SrcItem(s_url_fn, << >>, <<"d",".","w","o","f","f","2","?","v","=","1">>, << >>, None),
      SrcItem(s_url_fn, << >>, <<"E",".","T","T","F">>, << >>, None),
      SrcItem(s_url_fn, q2, <<"b",",","c",".","t","t","f">>, q2, Some(s_truetype)),
      SrcItem(s_url_fn, << >>, <<"x",".","b","i","n">>, << >>, None),
      SrcItem(s_local_fn, q1, <<"O","p","e","n"," ","S","a","n","s">>, << >>, None) }

SrcText(items) == Join([k \in DOMAIN items |-> ItemText(items[k])], <<",", " ">>)

InitSrc ==
    /\ Idle
    /\ \E n \in 0..MaxItems :
          input \in [items : [1..n -> SrcItemPool], base : {None, Some(u_sheet)}]
    /\ out1 = << >>
    /\ pc = "src"

\* sources = parse_font_face_src(properties['src'], base_url)
src_call ==
    /\ pc = "src"
    /\ out1' = parse_font_face_src(SrcText(input.items), input.base)
    /\ pc' = "src_parsed"
    /\ UNCHANGED << mergeVars, input, perm, out2, outP, parseVars, detectorVars, filtered >>

NextSrc == src_call

SpecSrc == InitSrc /\ [][NextSrc]_vars

(***************************************************************************)
(* Claims about parse_font_face_src                                        *)
(***************************************************************************)
\* the fragments of the value that have a url(...), in declaration order
C21_UrlItems(items) == SelectSeq(items, LAMBDA item : item.fn = s_url_fn)

\* the url of a fragment, resolved against the base when there is one
C21_Resolved(ref, base) == IF base = None THEN ref ELSE urljoin(base[1], ref)

C21_UrlsOf(items, base) == [k \in DOMAIN items |-> C21_Resolved(items[k].ref, base)]

\* C21: parse_font_face_src splits the src value at top-level commas only (a comma
\* inside the parentheses of url(...) or format(...) does not split) and returns one
\* {url, format} entry per fragment that has a url(...), in declaration order, with
\* relative URLs resolved against the base; fragments without url(...) are dropped.
C21_OneEntryPerUrlFragment ==
    pc = "src_parsed" =>
        /\ \A k \in DOMAIN out1 : DOMAIN out1[k] = {"url", "format"}
        /\ [k \in DOMAIN out1 |-> out1[k].url]
              = C21_UrlsOf(C21_UrlItems(input.items), input.base)

\* a value with a comma inside url(...), a local() fragment and a base gave the one
\* entry of the url fragment, resolved
C21_Witness ==
    /\ pc = "src_parsed"
    /\ Len(input.items) = 2
    /\ \E k \in DOMAIN input.items :
          /\ input.items[k].fn = s_url_fn
          /\ \E c \in DOMAIN input.items[k].ref : input.items[k].ref[c] = ","
    /\ \E k \in DOMAIN input.items : input.items[k].fn = s_local_fn
    /\ input.base # None
    /\ Len(out1) = 1
    /\ out1[1].url # C21_UrlItems(input.items)[1].ref

\* the path of a url: what is before its query string and fragment
C22_Path(u) ==
    SubSeq(u, 1, MinOr({k \in DOMAIN u : u[k] \in {"?", "#"}}, Len(u) + 1) - 1)

\* the extensions with the format each names; no extension is the end of another
C22_Formats ==
    { << ext_woff2, s_woff2 >>, << ext_woff, s_woff >>, << ext_ttf, s_truetype >>,
      << ext_otf, s_opentype >>, << ext_eot, s_embedded_opentype >> }

C22_Named(u) == {p \in C22_Formats : EndsWith(Lower(C22_Path(u)), p[1])}

\* the format the claim gives the entry of a fragment
C22_FormatIs(item, format) ==
    IF item.fmt # None THEN format = item.fmt
    ELSE \A p \in C22_Named(item.ref) : format = Some(p[2])

C22_FormatsAre(items) ==
    /\ Len(out1) = Len(items)
    /\ \A k \in DOMAIN items : C22_FormatIs(items[k], out1[k].format)

\* C22: for every src fragment with a url(...) and no format(...), the entry's format
\* is inferred from the file extension of the URL: .woff2 gives woff2, .woff gives
\* woff, .ttf gives truetype, .otf gives opentype, .eot gives embedded-opentype, also
\* when the URL carries a query string or the extension is in upper case; with an
\* explicit format(...) the entry's format is the explicit token.
C22_FormatFromExtension ==
    pc = "src_parsed" => C22_FormatsAre(C21_UrlItems(input.items))

(***************************************************************************)
(* _parse_font_shorthand applied to font values                            *)
(***************************************************************************)
MaxTokens == 3

\* the whitespace-free tokens the font values are made of: keywords, sizes with
\* and without a line height, numbers without a unit, family names with and
\* without a comma or a quote
ShorthandTokens ==
    { <<"b","o","l","d">>,
      <<"1","2","p","x">>,
      <<"1",".","5","e","m">>,
      <<"1","6","p","x","/","1",".","5">>,
      <<"7","0","0">>,
      <<"A","r","i","a","l",",">>,
      <<"s","e","r","i","f">>,
      <<"'","O","p","e","n">>,
      <<"S","a","n","s","'",",">>,
      <<"x","1","2","p","x">>,
      <<"1","2",".","p","x">>,
      <<"2","v","m","i","n">>,
      <<",">> }

ShorthandGaps == { << " ", " " >>, << "\t" >> }

InitShorthand ==
    /\ Idle
    /\ \E n \in 0..MaxTokens :
          input \in [tokens : [1..n -> ShorthandTokens], gap : ShorthandGaps]
    /\ out1 = << >>
    /\ pc = "shorthand"

\* fonts = self._parse_font_shorthand(font_value, selector)
shorthand_call ==
    /\ pc = "shorthand"
    /\ out1' = _parse_font_shorthand(Join(input.tokens, input.gap), s_body)
    /\ pc' = "shorthand_parsed"
    /\ UNCHANGED << mergeVars, input, perm, out2, outP, parseVars, detectorVars, filtered >>

NextShorthand == shorthand_call

SpecShorthand == InitShorthand /\ [][NextShorthand]_vars

(***************************************************************************)
(* Claims about _parse_font_shorthand                                      *)
(***************************************************************************)
C23_Units ==
    { <<"p","x">>, <<"e","m">>, <<"r","e","m">>, <<"%">>, <<"p","t">>, <<"p","c">>,
      <<"i","n">>, <<"c","m">>, <<"m","m">>, <<"e","x">>, <<"c","h">>, <<"v","w">>,
      <<"v","h">>, <<"v","m","i","n">>, <<"v","m","a","x">> }

C23_AllDigits(s) == s # << >> /\ \A k \in DOMAIN s : s[k] \in Digits

\* digits, optionally followed by a point and digits
C23_Number(s) ==
    \/ C23_AllDigits(s)
    \/ \E p \in DOMAIN s :
          /\ s[p] = "."
          /\ C23_AllDigits(SubSeq(s, 1, p - 1))
          /\ C23_AllDigits(SubSeq(s, p + 1, Len(s)))

\* the token begins with a number directly followed by a unit
C23_SizeLike(token) ==
    \E n \in 1..Len(token) : \E unit \in C23_Units :
        /\ C23_Number(SubSeq(token, 1, n))
        /\ n + Len(unit) <= Len(token)
        /\ SubSeq(token, n + 1, n + Len(unit)) = unit

C23_SizeAt(tokens) == MinOr({k \in DOMAIN tokens : C23_SizeLike(tokens[k])}, 0)

\* the family list: the tokens strictly after the size token, split and normalized
\* as a font-family value, the empty names left out
C23_NamesAfter(tokens, size) ==
    IF size = 0 \/ size = Len(tokens) THEN << >>
    ELSE SelectSeq(_parse_font_family_value(Join(SubSeq(tokens, size + 1, Len(tokens)), << " " >>)),
                   LAMBDA name : name # << >>)

C23_Carries(result, names, selector) ==
    /\ Len(result) = Len(names)
    /\ \A k \in DOMAIN result :
          /\ result[k].name = names[k]
          /\ result[k].selectors = << selector >>

\* C23: the fonts of a font shorthand are the non-empty families of the text
\* strictly after the first token that begins as a number with a CSS unit, each
\* carrying the selector; without such a token, or with it last, there is no font
C23_FamiliesAfterSize ==
    pc = "shorthand_parsed" =>
        C23_Carries(out1, C23_NamesAfter(input.tokens, C23_SizeAt(input.tokens)), s_body)

C23_Witness ==
    /\ pc = "shorthand_parsed"
    /\ C23_SizeAt(input.tokens) = 2
    /\ Len(input.tokens) = 3
    /\ Len(out1) = 1

(***************************************************************************)
(* Claims about the face data of merged entries                            *)
(***************************************************************************)
\* the members of the key, in input order, whose face data has the property
C24_Having(vals, key, property) ==
    {m \in Members(vals, key) : property \in DOMAIN vals[m].font_face_data}

C24_Properties(vals, key) ==
    UNION {DOMAIN vals[m].font_face_data : m \in Members(vals, key)}

C24_Overlay(entry, vals, key) ==
    /\ DOMAIN entry.font_face_data = C24_Properties(vals, key)
    /\ \A property \in DOMAIN entry.font_face_data :
          entry.font_face_data[property] =
              vals[Max(C24_Having(vals, key, property))].font_face_data[property]

\* C24: the face data of a merged entry is the left-to-right overlay of the face
\* data of the members of its key: it has the property names of all of them, and
\* for each name the value of the last member, in input order, that has the name
C24_FaceDataOverlay ==
    Returned1 => \A k \in DOMAIN out1 : C24_Overlay(out1[k], input, KeyOf(out1[k]))

\* a call that merged two members of one key whose face data disagree on a property
C24_Witness ==
    /\ Returned1
    /\ \E k \in DOMAIN out1 : \E a, b \in Members(input, KeyOf(out1[k])) :
          /\ a < b
          /\ \E property \in DOMAIN input[a].font_face_data \cap DOMAIN input[b].font_face_data :
                input[a].font_face_data[property] # input[b].font_face_data[property]

(***************************************************************************)
(* One CSSParser parsing two sheets, one after the other                   *)
(***************************************************************************)
MaxStatements == 2

\* the statements the sheets are made of: an @import of a quoted url, one of a
\* url(...), and one whose url urljoin rejects
StatementPool ==
    { <<"@","i","m","p","o","r","t"," ","'","a",".","c","s","s","'",";">>,
      <<"@","i","m","p","o","r","t"," ","u","r","l","(","b",".","c","s","s",")",";">>,
      <<"@","i","m","p","o","r","t"," ","'","/","/","[","x","/","c",".","c","s","s","'",";">> }

SheetOf(statements) == Join(statements, << " " >>)

\* self.css_imports.extend(found) with found replacing the list
ExtendFresh(imports, found) == found

\* self.css_imports.extend(found)
Extend(imports, found) == imports \o found

InitReparse ==
    /\ Idle
    /\ \E n, m \in 0..MaxStatements :
          input \in [first : [1..n -> StatementPool], second : [1..m -> StatementPool],
                     base : {None, Some(u_sheet)}]
    /\ out1 = << >>
    /\ pc = "reparse"

\* css_parser = CSSParser(base_url); css_parser.parse_css_content(first)
parse_first ==
    /\ pc = "reparse"
    /\ \E structured \in BOOLEAN :
          out1' = parse_css_content(SheetOf(input.first), input.base, None, structured)
    /\ css_imports' = Extend(css_imports, out1'.imports)
    /\ pc' = "parsed_first"
    /\ UNCHANGED << mergeVars, input, perm, out2, outP, blocks, tail, parse_out, url, site,
                    include_system, skip_external, fetched_urls, results, all_fonts, j,
                    filtered >>

\* css_parser.parse_css_content(second), on the same parser
parse_second ==
    /\ pc = "parsed_first"
    /\ \E structured \in BOOLEAN :
          out2' = parse_css_content(SheetOf(input.second), input.base, None, structured)
    /\ css_imports' = Extend(css_imports, out2'.imports)
    /\ pc' = "parsed_second"
    /\ UNCHANGED << mergeVars, input, perm, out1, outP, blocks, tail, parse_out, url, site,
                    include_system, skip_external, fetched_urls, results, all_fonts, j,
                    filtered >>

NextReparse == parse_first \/ parse_second

SpecReparse == InitReparse /\ [][NextReparse]_vars

(***************************************************************************)
(* Claims about the state a parse leaves in the parser                     *)
(***************************************************************************)
\* the imports a parser that parsed nothing before reports after parsing the sheet
C25_ImportsAlone(statements, base) ==
    parse_css_content(SheetOf(statements), base, None, TRUE).imports

FamilyChars == {"a", " ", ",", "'", "\""}

SrcChars == {"u", " ", ",", "(", ")"}

\* for char in value: the index of the character after the one at k, staying put
AdvanceStuck(k) == k

\* for char in value: the index of the character after the one at k
Advance(k) == k + 1

\* the locals of _parse_font_family_value before its loop
FamilyScanStart ==
    [font_families |-> << >>, current_font |-> << >>, in_quotes |-> FALSE, quote_char |-> None]

\* the body of "for char in font_family_value"
FamilyScanStep(locals, char) ==
    IF IsQuote(char) /\ ~locals.in_quotes
    THEN [locals EXCEPT !.in_quotes = TRUE, !.quote_char = Some(char),
                        !.current_font = @ \o << char >>]
    ELSE IF locals.quote_char = Some(char) /\ locals.in_quotes
    THEN [locals EXCEPT !.in_quotes = FALSE, !.quote_char = None,
                        !.current_font = @ \o << char >>]
    ELSE IF char = "," /\ ~locals.in_quotes
    THEN [locals EXCEPT !.font_families = @ \o NonBlank(Strip(locals.current_font)),
                        !.current_font = << >>]
    ELSE [locals EXCEPT !.current_font = @ \o << char >>]

\* after the loop: the last font is added; the return statement then normalizes
\* each font of the list (NormalizedNames)
FamilyScanEnd(locals) == locals.font_families \o NonBlank(Strip(locals.current_font))

\* the locals of parse_font_face_src before its loop
SrcScanStart == [src_parts |-> << >>, current_part |-> << >>, paren_depth |-> 0]

\* the body of "for char in src_value"
SrcScanStep(locals, char) ==
    IF char = "("
    THEN [locals EXCEPT !.paren_depth = @ + 1, !.current_part = @ \o << char >>]
    ELSE IF char = ")"
    THEN [locals EXCEPT !.paren_depth = @ - 1, !.current_part = @ \o << char >>]
    ELSE IF char = "," /\ locals.paren_depth = 0
    THEN [locals EXCEPT !.src_parts = @ \o << Strip(locals.current_part) >>,
                        !.current_part = << >>]
    ELSE [locals EXCEPT !.current_part = @ \o << char >>]

\* after the loop: the last part is added when it is not blank
SrcScanEnd(locals) == locals.src_parts \o NonBlank(Strip(locals.current_part))

InitScan ==
    /\ Idle
    /\ \/ /\ input \in [scanner : {"family"}, value : StringsOver(FamilyChars)]
          /\ out1 = FamilyScanStart
       \/ /\ input \in [scanner : {"src"}, value : StringsOver(SrcChars)]
          /\ out1 = SrcScanStart
    /\ pc = "scan"

family_char ==
    /\ pc = "scan"
    /\ input.scanner = "family"
    /\ i <= Len(input.value)
    /\ out1' = FamilyScanStep(out1, input.value[i])
    /\ i' = Advance(i)
    /\ UNCHANGED << pc, heap, fonts, font_map, merged, input, perm, out2, outP, parseVars,
                    detectorVars, filtered >>

family_end ==
    /\ pc = "scan"
    /\ input.scanner = "family"
    /\ i > Len(input.value)
    /\ out2' = FamilyScanEnd(out1)
    /\ pc' = "scanned"
    /\ UNCHANGED << mergeVars, input, perm, out1, outP, parseVars, detectorVars, filtered >>

src_char ==
    /\ pc = "scan"
    /\ input.scanner = "src"
    /\ i <= Len(input.value)
    /\ out1' = SrcScanStep(out1, input.value[i])
    /\ i' = Advance(i)
    /\ UNCHANGED << pc, heap, fonts, font_map, merged, input, perm, out2, outP, parseVars,
                    detectorVars, filtered >>

src_end ==
    /\ pc = "scan"
    /\ input.scanner = "src"
    /\ i > Len(input.value)
    /\ out2' = SrcScanEnd(out1)
    /\ pc' = "scanned"
    /\ UNCHANGED << mergeVars, input, perm, out1, outP, parseVars, detectorVars, filtered >>

NextScan == family_char \/ family_end \/ src_char \/ src_end

SpecScan == InitScan /\ [][NextScan]_vars

\* the interpreter runs a loop it has entered to its end
SpecScanFair == SpecScan /\ WF_vars(NextScan)

\* the loops, character by character, give what the scanners of the other
\* specifications give in one step
ScanAgrees ==
    pc = "scanned" =>
        IF input.scanner = "family"
        THEN NormalizedNames(out2) = _parse_font_family_value(input.value)
        ELSE out2 = SrcParts(input.value)

(***************************************************************************)
(* Claims about the termination of the scanners                            *)
(***************************************************************************)
\* a step of a scanner reads the next character, or ends the scan at the end of
\* the string
C26_Step ==
    \/ pc = "scan" /\ pc' = "scan" /\ i <= Len(input.value) /\ i' = i + 1
    \/ pc = "scan" /\ pc' = "scanned" /\ i = Len(input.value) + 1 /\ i' = i

\* C26: the scanners of _parse_font_family_value and parse_font_face_src read
\* each character of the string once, in order, and then return, for every
\* string, with an unclosed quote, unbalanced parentheses or more ")" than "("
\* as well; no step of them raises
C26_ScannersTerminate ==
    /\ [][C26_Step]_vars
    /\ [](i \in 1..(Len(input.value) + 1))
    /\ <>(pc = "scanned")

\* a family scan that returned with the quote open, or a src scan that returned
\* with more ")" read than "("
C26_Witness ==
    /\ pc = "scanned"
    /\ Len(input.value) = MaxChars
    /\ \/ input.scanner = "family" /\ out1.in_quotes
       \/ input.scanner = "src" /\ out1.paren_depth < 0 /\ "," \in Range(input.value)

(***************************************************************************)
(* analyze_website up to the end of _process_css_imports, on sites whose   *)
(* style sheets import each other, with the requests sent recorded         *)
(***************************************************************************)
\* a.css importing itself and b.css
css_a_self == <<"@","i","m","p","o","r","t"," ","'","a",".","c","s","s","'",";"," ","@","i","m","p","o","r","t"," ","\"","b",".","c","s","s","\"",";">>

\* b.css importing a.css back
css_b_back == <<"@","i","m","p","o","r","t"," ","u","r","l","(","a",".","c","s","s",")",";"," ","e","m","{","f","o","n","t","-","f","a","m","i","l","y",":","M","e","n","l","o","}">>

\* b.css importing itself and a sheet that is not served
css_b_self == <<"@","i","m","p","o","r","t"," ","'","b",".","c","s","s","'",";"," ","@","i","m","p","o","r","t"," ","'","c",".","c","s","s","'",";">>

ChasePages ==
    { [styles |-> st, links |-> l, scripts |-> << >>, attrs |-> << >>] :
        st \in {<< >>, << css_imp >>},
        l \in {<< >>, << [stylesheet |-> TRUE, href |-> <<"a",".","c","s","s">>] >>} }

ChaseSites ==
    { (u_page :> [kind |-> "html", page |-> page]) @@ (u_a_css :> a)
        @@ (u_b_css :> [kind |-> "css", text |-> b, css_type |-> TRUE]) :
        page \in ChasePages,
        a \in {[kind |-> "css", text |-> text, css_type |-> TRUE] : text \in {css_a, css_a_self}}
                 \cup {[kind |-> "fail"]},
        b \in {css_b, css_b_back, css_b_self} }

\* the urls a call of _fetch_html or _fetch_css passes on to session.get: none when
\* the url is in fetched_urls
Requested(fetched, u) == IF u \in fetched THEN {} ELSE {u}

\* the number of requests per url, one more sent for each url of new
Logged(log, new) ==
    [u \in DOMAIN log \cup new |->
        (IF u \in DOMAIN log THEN log[u] ELSE 0) + (IF u \in new THEN 1 ELSE 0)]

InitChase ==
    /\ NoParse
    /\ site \in ChaseSites
    /\ url = u_page
    /\ include_system = TRUE
    /\ skip_external \in BOOLEAN
    /\ fetched_urls = {}
    /\ results = ScrapeResults(url)
    /\ all_fonts = << >>
    /\ css_imports = << >>
    /\ j = 1
    /\ filtered = << >>
    /\ input = << >>
    /\ perm = << >>
    /\ out1 = << >>
    /\ out2 = << >>
    /\ outP = << >>
    /\ heap = << >>
    /\ fonts = << >>
    /\ font_map = << >>
    /\ i = 1
    /\ merged = << >>
    /\ pc = "analyze"

\* analyze_fetch_page, the urls fetch_page requested recorded
TakePageLogged(fetch) ==
    /\ TakePage(fetch)
    /\ out1' = Logged(out1, fetch.fetched_urls \ fetched_urls)

chase_fetch_page ==
    /\ pc = "analyze"
    /\ TakePageLogged(fetch_page(site, fetched_urls, url))
    /\ j' = 1
    /\ UNCHANGED << mergeVars, input, perm, out2, outP, parseVars, url, site, include_system,
                    skip_external, all_fonts, css_imports, filtered >>

\* analyze_refetch_html, the request of _fetch_html recorded
chase_refetch_html ==
    /\ pc = "parse_css"
    /\ ~(results.has_css_content /\ j <= Len(results.css_content))
    /\ TakeHtml(_fetch_html(site, fetched_urls, url))
    /\ out1' = Logged(out1, Requested(fetched_urls, url))
    /\ j' = 1
    /\ UNCHANGED << fonts, font_map, i, merged, input, perm, out2, outP, parseVars, url, site,
                    include_system, skip_external, css_imports, filtered >>

\* analyze_process_import, the request of _fetch_css recorded
chase_import ==
    /\ pc = "imports"
    /\ MoreImports(css_imports, skip_external, j)
    /\ TakeImport(css_imports[j], _fetch_css(site, fetched_urls, css_imports[j]))
    /\ out1' = Logged(out1, Requested(fetched_urls, css_imports[j]))
    /\ j' = j + 1
    /\ UNCHANGED << pc, fonts, font_map, i, merged, input, perm, out2, outP, parseVars, url,
                    site, include_system, skip_external, results, filtered >>

NextChase ==
    \/ chase_fetch_page
    \/ analyze_parse_css
    \/ chase_refetch_html
    \/ chase_import
    \/ analyze_merge_call

SpecChase == InitChase /\ [][NextChase]_vars

\* "for import_url in css_imports" goes on to the next element while there is one,
\* and _process_css_imports returns when there is none
LoopTurn == pc = "imports" /\ MoreImports(css_imports, skip_external, j) /\ j' = j + 1

LoopExit ==
    pc = "imports" /\ ~MoreImports(css_imports, skip_external, j) /\ pc' = "analyze_merge"

SpecChaseFair == SpecChase /\ WF_j(LoopTurn) /\ WF_pc(LoopExit)

(***************************************************************************)
(* Claims about import chasing                                             *)
(***************************************************************************)
C27_OnceEach == \A u \in DOMAIN out1 : out1[u] <= 1

C27_Grows == fetched_urls \subseteq fetched_urls'

\* C27: no url is requested more than once, fetched_urls only grows, and
\* _process_css_imports, walking the import list that the parses of the imported
\* sheets extend, comes to its end, also when the sheets import each other
C27_ChaseTerminates ==
    /\ []C27_OnceEach
    /\ [][C27_Grows]_vars
    /\ (pc = "imports") ~> (pc = "analyze_merge")

\* the chase ended after it fetched a sheet that imports a sheet fetched before it,
\* and met that import
C27_Witness ==
    /\ pc = "analyze_merge"
    /\ site[u_b_css].text = css_b_back
    /\ {u_a_css, u_b_css} \subseteq DOMAIN out1
    /\ \E a, b \in DOMAIN css_imports : a < b /\ css_imports[a] = css_imports[b]
    /\ j = Len(css_imports) + 1

(***************************************************************************)
(* Two calls of analyze_website on one FontDetector, as the batch command  *)
(* makes them                                                              *)
(***************************************************************************)
u_page2 == <<"h","t","t","p","s",":","/","/","x",".","t","e","s","t","/","p","2">>

\* two pages that both link a.css, the first with or without a <style> and style
\* attributes
RepeatSites ==
    { (u_page :> [kind |-> "html",
                  page |-> [styles |-> st, scripts |-> << >>, attrs |-> a,
                            links |-> << [stylesheet |-> TRUE, href |-> <<"a",".","c","s","s">>] >>]])
        @@ (u_page2 :> [kind |-> "html",
                        page |-> [styles |-> << >>, scripts |-> << >>, attrs |-> << >>,
                                  links |-> << [stylesheet |-> TRUE, href |-> <<"a",".","c","s","s">>] >>]])
        @@ (u_a_css :> [kind |-> "css", text |-> css_a, css_type |-> TRUE])
        @@ (u_b_css :> [kind |-> "css", text |-> css_b, css_type |-> FALSE]) :
        st \in {<< >>, << css_e2e >>}, a \in AttrPool }

InitRepeat ==
    /\ NoParse
    /\ site \in RepeatSites
    /\ url = u_page
    /\ include_system \in BOOLEAN
    /\ skip_external \in BOOLEAN
    /\ fetched_urls = {}
    /\ results = ScrapeResults(url)
    /\ all_fonts = << >>
    /\ css_imports = << >>
    /\ j = 1
    /\ filtered = << >>
    /\ input = << >>
    /\ perm = << >>
    /\ out1 = << >>
    /\ out2 = << >>
    /\ outP = << >>
    /\ heap = << >>
    /\ fonts = << >>
    /\ font_map = << >>
    /\ i = 1
    /\ merged = << >>
    /\ pc = "analyze"

\* the loop of batch goes on to its next url: detector.analyze_website(next_url) on
\* the same detector, whose scraper keeps its fetched_urls; input keeps what the
\* first call returned
analyze_again ==
    /\ pc = "done"
    /\ input = << >>
    /\ input' = [url |-> url, fonts |-> Snapshot(results.fonts, heap),
                 errors |-> results.errors]
    /\ \E next_url \in {u_page, u_page2} :
          /\ url' = next_url
          /\ results' = ScrapeResults(next_url)
    /\ all_fonts' = << >>
    /\ css_imports' = << >>
    /\ j' = 1
    /\ pc' = "analyze"
    /\ UNCHANGED << mergeVars, perm, out1, out2, outP, parseVars, site, include_system,
                    skip_external, fetched_urls, filtered >>

NextRepeat == Next \/ analyze_again

SpecRepeat == InitRepeat /\ [][NextRepeat]_vars

(***************************************************************************)
(* Claims about repeated analysis                                          *)
(***************************************************************************)
\* the second call has returned
C28_Again == pc = "done" /\ input # << >>

\* the names of the fonts of the sheet both pages link
C28_SheetNames == {<<"L","a","t","o">>}

C28_NamesOf(ids, h) == {h[ids[k]].name : k \in DOMAIN ids}

\* C28: a second analyze_website for the same url on the same FontDetector returns
\* the fonts and errors of the first, and one for a second page that links a style
\* sheet fetched for the first still returns the fonts of that sheet
C28_Repeatable ==
    C28_Again =>
        IF url = input.url
        THEN /\ Snapshot(results.fonts, heap) = input.fonts
             /\ results.errors = input.errors
        ELSE C28_SheetNames \subseteq C28_NamesOf(results.fonts, heap)

(***************************************************************************)
(* Claims about css_sources                                                *)
(***************************************************************************)
\* fetch_page has stored css_content and css_sources in the results
C29_Stored == pc # "analyze" /\ results.has_css_content

\* the number of <style> blocks whose text fetch_page stored
C29_Inline == Len(_extract_inline_css(site[url].page))

\* source names the origin of content: 'inline' for the k-th blob when it is one of
\* the <style> blocks, else the url the site serves the content at
C29_Names(source, content, k) ==
    IF k <= C29_Inline THEN source = s_inline
    ELSE /\ source \in DOMAIN site
         /\ site[source].kind = "css"
         /\ site[source].text = content

\* C29: css_sources is aligned with css_content: the lists have the same length and
\* css_sources[k] names the origin of css_content[k], whatever the number of <style>
\* blocks and of fetched style sheets
C29_SourcesAligned ==
    C29_Stored =>
        /\ Len(results.css_sources) = Len(results.css_content)
        /\ \A k \in DOMAIN results.css_content :
              k \in DOMAIN results.css_sources
                 /\ C29_Names(results.css_sources[k], results.css_content[k], k)

(***************************************************************************)
(* Every producer of Font objects, then merge_duplicate_fonts and the rest *)
(* of analyze_website                                                      *)
(***************************************************************************)
MaxProduced == 2

css_blank_url == <<"@","f","o","n","t","-","f","a","c","e","{","f","o","n","t","-","f","a","m","i","l","y",":","T",";","s","r","c",":","u","r","l","("," ",")","}">>

attr_arial == <<"f","o","n","t","-","f","a","m","i","l","y",":","A","r","i","a","l",",","s","e","r","i","f">>

\* a page with a link or script of every kind detect_web_font_services knows
ServicePage ==
    [styles |-> << >>, attrs |-> << >>, scripts |-> << u_typekit >>,
     links |-> << [stylesheet |-> TRUE, href |-> u_google],
                  [stylesheet |-> TRUE, href |-> <<"/","f","o","n","t","a","w","e","s","o","m","e",".","c","s","s">>],
                  [stylesheet |-> TRUE, href |-> <<"/","/","f","o","n","t","s",".","c","o","m","/","f",".","c","s","s">>] >>]

\* what a producer is run on: a style sheet, a style attribute, or a page
ProducerItems ==
    { [producer |-> "css", text |-> text] :
        text \in {css_e2e, css_sys, css_imp, css_a, css_blank_url} }
    \cup { [producer |-> "inline", text |-> text] : text \in {attr_lato, attr_arial} }
    \cup { [producer |-> "services", page |-> ServicePage] }

InitFonts ==
    /\ NoParse
    /\ site = << >>
    /\ url = u_page
    /\ include_system = TRUE
    /\ skip_external = TRUE
    /\ fetched_urls = {}
    /\ results = ScrapeResults(url)
    /\ all_fonts = << >>
    /\ css_imports = << >>
    /\ j = 1
    /\ filtered = << >>
    /\ \E n \in 0..MaxProduced : input \in [1..n -> ProducerItems]
    /\ perm = << >>
    /\ out1 = << >>
    /\ out2 = << >>
    /\ outP = << >>
    /\ heap = << >>
    /\ fonts = << >>
    /\ font_map = << >>
    /\ i = 1
    /\ merged = << >>
    /\ pc = "produce"

\* the next thing to run a producer on is of the kind
Produces(producer) == pc = "produce" /\ j <= Len(input) /\ input[j].producer = producer

\* fonts = css_parser.parse_css_content(css_content, source_url); all_fonts.extend(fonts)
produce_css ==
    /\ Produces("css")
    /\ \E structured \in BOOLEAN :
          TakeParsed(parse_css_content(input[j].text, Some(url), None, structured))
    /\ j' = j + 1
    /\ UNCHANGED << pc, fonts, font_map, i, merged, harnessVars, parseVars, url, site,
                    include_system, skip_external, fetched_urls, results, filtered >>

\* inline_fonts = self._parse_inline_style(style); all_fonts.extend(inline_fonts)
produce_inline ==
    /\ Produces("inline")
    /\ TakeFonts(Allocate(heap, _parse_inline_style(input[j].text)))
    /\ j' = j + 1
    /\ UNCHANGED << pc, fonts, font_map, i, merged, harnessVars, parseVars, url, site,
                    include_system, skip_external, fetched_urls, results, css_imports,
                    filtered >>

\* service_fonts = self._analyze_web_font_services(
\*     self.scraper.detect_web_font_services(soup, url)); all_fonts.extend(service_fonts)
produce_services ==
    /\ Produces("services")
    /\ TakeFonts(Allocate(heap, _analyze_web_font_services(
                                    detect_web_font_services(input[j].page, url))))
    /\ j' = j + 1
    /\ UNCHANGED << pc, fonts, font_map, i, merged, harnessVars, parseVars, url, site,
                    include_system, skip_external, fetched_urls, results, css_imports,
                    filtered >>

\* everything is produced: analyze_website goes on to its imports, which
\* skip_external leaves alone, and to the merge
produce_done ==
    /\ pc = "produce"
    /\ j > Len(input)
    /\ pc' = "imports"
    /\ j' = 1
    /\ UNCHANGED << mergeVars, harnessVars, parseVars, url, site, include_system,
                    skip_external, fetched_urls, results, all_fonts, css_imports, filtered >>

NextFonts ==
    \/ produce_css
    \/ produce_inline
    \/ produce_services
    \/ produce_done
    \/ analyze_merge_call
    \/ merge_iter
    \/ analyze_finish

SpecFonts == InitFonts /\ [][NextFonts]_vars

(***************************************************************************)
(* Claims about the type and the source of a Font                          *)
(***************************************************************************)
C30_HasSource(font) == font.source # None /\ font.source[1] # << >>

\* the type a font without a src has by its name
C30_TypeByName(name) == IF is_system_font(name) THEN s_system ELSE s_custom

C30_Consistent(font) ==
    IF font.type = s_web THEN C30_HasSource(font)
    ELSE /\ font.source = None
         /\ font.type = C30_TypeByName(font.name)

\* C30: every Font the producers make, and every Font merge returns, has a
\* non-empty source when its type is 'web' and no source otherwise, and a font
\* of a style rule, of the font shorthand or of an inline style is 'system' exactly
\* when is_system_font holds of its name and 'custom' when it does not
C30_TypeAndSource == \A id \in DOMAIN heap : C30_Consistent(heap[id])

C30_TypesOf(ids, h) == {h[ids[k]].type : k \in DOMAIN ids}

\* a call that returned fonts of the three types, some of them merged
C30_Witness ==
    /\ pc = "done"
    /\ C30_TypesOf(results.fonts, heap) = {s_web, s_system, s_custom}
    /\ Len(merged) < Len(all_fonts)

=============================================================================
